---- MODULE Spec2Model ----
(***************************************************************************)
(* Session orchestration of the drawing-and-guessing party game: the room  *)
(* row, the player rows and the guess log held by the store, the presence  *)
(* channel, and for every client the snapshots it received and the         *)
(* position of each asynchronous handler it has started.                   *)
(***************************************************************************)
EXTENDS Integers, Sequences, FiniteSets, TLC

\* ------------------------------------------------------------------ bounds
\* Identifiers the store can hand out.  Player 1 is the creator of the room.
Ids == {1, 2, 3}

\* Number of presence drops / re-tracks one run may contain.
MaxChurn == 2

\* The clock runs from 0 to MaxTime (seconds).
MaxTime == 9

\* The draw_time setting of the rooms of SpecGame, in seconds.
DrawTime == 3

\* Draw time (seconds) of the rooms of the rotation specification.
ShortDrawTime == 1

\* Largest number of seconds between the word selection and a guess, and
\* largest number of earlier correct guesses, in the scoring specification.
MaxSeconds == 90
MaxPrior == 3

\* Words a drawer is offered and texts a guesser types.
Words == {"apple"}
GuessTexts == Words

\* Words and texts of the matching specification.
MatchWords == {"apple", "TEA POT"}
MatchTexts == {"apple", "  Apple ", "appel", "ap ple", "app", "tea\tpot", " "}

\* Number of guesses the store can still stamp in the matching specification.
MaxGuesses == 2

\* The draw_time setting of the rooms of the turn-end specifications.
LongDrawTime == 8
\* Longest of the short draw times whose turn the clock runs through.
MaxDrawTime == 8

\* The canvas of the model is CanvasWidth x CanvasHeight pixels.
CanvasWidth == 2
CanvasHeight == 1
\* Broadcasts a client can have waiting, and snapshots a drawer saves.
MaxQueue == 2
MaxSaves == 2
\* Points one stroke buffer can hold.
MaxPoints == 2
\* Largest difference (seconds) between the clock of a browser and the clock
\* of the store.
MaxSkew == 4
\* Largest bitmap floodFill is called on.
FillWidth == 3
FillHeight == 3
\* Messages the timer worker can have waiting, and intervals it can create.
MaxInbox == 3
MaxIntervals == 3

\* The clock of the relay specification runs from 0 to MaxElapsed (seconds),
\* past the end of the longest turn the lobby offers.
MaxElapsed == 125
\* Clock value at which the word of the relay specification was selected; the
\* clock of an observing browser may still be behind it.
RelayStart == 2

\* --------------------------------------------------------------- constants
NoPlayer == 0
NoTime == -1
NoWord == "null"

DefaultMaxPlayers == 8
DefaultRounds == 3
DefaultDrawTime == 120
DefaultWordCount == 3

BASE_POINTS == 1000
MIN_POINTS == 100
\* DECAY_PER_SECOND = 12.5, kept as twice its value
DECAY_PER_SECOND_X2 == 25
RelayPasses == 3
DrawerPointsPerGuess == 50
\* the wordCount argument GameView passes to getWordChoices
OfferedWordCount == 3
WORD_COUNT_OPTIONS == {2, 3, 4, 5}
DRAW_TIME_OPTIONS == {30, 45, 60, 80, 90, 120}
MAX_HISTORY == 20
\* COLORS.paper and the initial pen colour COLORS.palette.black
Paper == "paper"
Black == "black"
\* subscribedAs of a browser whose Canvas is not mounted
Unmounted == "unmounted"
Drawer == "drawer"
Observer == "observer"
GAME_MODES == {"classic", "speed", "relay"}

\* ------------------------------------------------------------------- state
VARIABLES
    room,        \* the room row of the store
    players,     \* the player rows of the store: id -> row
    present,     \* presence channel: ids currently tracked
    clientRoom,  \* per client: room snapshot (useGameState `room`)
    rawPlayers,  \* per client: player rows snapshot (useGameState `rawPlayers`)
    onlineIds,   \* per client: presence snapshot (useGameState `onlineIds`)
    hostPc,      \* per client: position of the host-transfer async block
    joinPc,      \* per browser: position of joinRoom / membership
    starting,    \* per client: LobbyView `starting` flag
    churn,       \* presence drops and re-tracks so far
    guesses,     \* the guess log of the store
    now,         \* the clock
    hasGuessed,  \* per client: GameView `hasGuessedCorrectly`
    awardedRef,  \* per client: GameView `drawerPointsAwardedRef`
    checkPc,     \* per client: position of checkAndEndTurnIfAllGuessed
    awardPc,     \* per client: position of the drawer-points async block
    guessPc,     \* per client: position of sendGuess
    resetPc,     \* per client: position of resetGame
    wordChoices, \* per client: GameView `wordChoices`
    usedWords,   \* per client: GameView `usedWords`
    canvas,      \* per client: the bitmap of the canvas element
    history,     \* per client: Canvas `historyRef`
    historyIndex,        \* per client: Canvas `historyIndexRef`
    lastWordSelectedAt,  \* per client: Canvas `lastWordSelectedAt` ref
    subscribedAs,        \* per client: isDrawer of the Canvas subscription
    tool,        \* per client: Canvas `tool`
    isDrawing,   \* per client: Canvas `isDrawing`
    strokeBuffer,        \* per client: Canvas `strokeBuffer` ref
    drawQueue,   \* per client: broadcasts of room_draw on their way to it
    filled,      \* the last call of floodFill: its arguments and what it left
    kickedPlayerIds,     \* per client: LobbyView `kickedPlayerIds`
    kickPc,      \* per client and target: position of kickPlayer
    clockSkew,   \* per client: its Date.now() minus the clock of the store
    strokeStart, \* per client: the canvas as the stroke in progress found it
    workerJs,    \* a timer worker: intervalId, its active intervals, its inbox
    hostLoop,    \* per client: the polling workers of its host game loop
    resubmitPc   \* per client: position of a second sendGuess in flight

lobbyVars == <<room, players, present, clientRoom, rawPlayers, onlineIds,
               hostPc, joinPc, starting, churn>>
wordVars == <<wordChoices, usedWords>>
\* Canvas: the bitmap, the undo history and the refs of the component, and
\* the broadcasts of the drawing channel that are on their way to a client
canvasVars == <<canvas, history, historyIndex, lastWordSelectedAt, subscribedAs,
                tool, isDrawing, strokeBuffer, drawQueue>>
fillVars == <<filled>>
kickVars == <<kickedPlayerIds, kickPc>>
workerVars == <<workerJs, hostLoop>>
restVars == <<clockSkew, strokeStart, workerVars, resubmitPc>>
nonCanvasVars == <<fillVars, kickVars, restVars>>
uiVars == <<canvasVars, nonCanvasVars>>
gameVars == <<guesses, now, hasGuessed, awardedRef, checkPc, awardPc, guessPc,
              resetPc, wordVars, uiVars>>
pcVars == <<checkPc, awardPc, guessPc, resetPc>>

vars == <<lobbyVars, gameVars>>

\* ----------------------------------------------------------------- helpers
NoRows == [i \in {} |-> 0]

PlayerRow(order, host) == [turn_order |-> order, is_host |-> host, score |-> 0]

\* Row order of a `.order('turn_order')` query; equal ordinals keep id order.
Before(tbl, i, j) ==
    \/ tbl[i].turn_order < tbl[j].turn_order
    \/ tbl[i].turn_order = tbl[j].turn_order /\ i <= j

RECURSIVE OrderIds(_, _)
OrderIds(tbl, S) ==
    IF S = {} THEN <<>>
    ELSE LET m == CHOOSE i \in S : \A j \in S : Before(tbl, i, j)
         IN  <<m>> \o OrderIds(tbl, S \ {m})

\* Array.prototype.find over a sequence of ids, the predicate given as the set
\* of ids that satisfy it; NoPlayer when nothing matches.
RECURSIVE FindFirst(_, _)
FindFirst(seq, S) ==
    IF seq = <<>> THEN NoPlayer
    ELSE IF Head(seq) \in S THEN Head(seq)
    ELSE FindFirst(Tail(seq), S)

\* The part of the player rows a client reads from its snapshot: the score
\* column is only displayed.
Snapshot(tbl) ==
    [i \in DOMAIN tbl |-> [turn_order |-> tbl[i].turn_order,
                            is_host |-> tbl[i].is_host]]

InsertRow(tbl, id, row) ==
    [i \in DOMAIN tbl \cup {id} |-> IF i = id THEN row ELSE tbl[i]]

DeleteRow(tbl, id) == [i \in DOMAIN tbl \ {id} |-> tbl[i]]

\* UPDATE players SET is_host = v WHERE id = ...; no row, no effect.
SetHost(tbl, id, v) ==
    IF id \in DOMAIN tbl THEN [tbl EXCEPT ![id].is_host = v] ELSE tbl

Joined(c) == joinPc[c].stage = "joined"

\* Date.now() and new Date() in the browser of c
ClientNow(c) == now + clockSkew[c]

\* ------------------------------------------------------------------- Init
\* createRoom has inserted the room row and the creator's player row.
InitRoom ==
    [status |-> "waiting", current_round |-> 1, max_rounds |-> DefaultRounds,
     current_drawer_index |-> 0, current_word |-> NoWord,
     word_selected_at |-> NoTime, turn_ends_at |-> NoTime,
     settings |-> [max_players |-> DefaultMaxPlayers, rounds |-> DefaultRounds,
                   draw_time |-> DefaultDrawTime, word_count |-> DefaultWordCount,
                   game_mode |-> "classic"]]

IdleJoin == [stage |-> "idle", count |-> 0]

IdlePc == [stage |-> "idle"]

\* The host-transfer effect of a client: the step of its async block, the host
\* it captured, and whether its dependencies changed since it last started
\* the block.
IdleHost == [stage |-> "idle", old |-> NoPlayer, fresh |-> TRUE]

\* GameView as mounted: no candidates offered, no word used.
InitWordVars ==
    /\ wordChoices = [c \in Ids |-> <<>>]
    /\ usedWords = [c \in Ids |-> {}]

\* A bitmap holds one colour per pixel, row by row like ImageData.
BlankBitmap(w, h) == [width |-> w, height |-> h, data |-> [i \in 0 .. w * h - 1 |-> Paper]]

BlankCanvas == BlankBitmap(CanvasWidth, CanvasHeight)

\* No Canvas is mounted.
InitCanvasVars ==
    /\ canvas = [c \in Ids |-> BlankCanvas]
    /\ history = [c \in Ids |-> <<>>]
    /\ historyIndex = [c \in Ids |-> -1]
    /\ lastWordSelectedAt = [c \in Ids |-> NoTime]
    /\ subscribedAs = [c \in Ids |-> Unmounted]
    /\ tool = [c \in Ids |-> "pen"]
    /\ isDrawing = [c \in Ids |-> FALSE]
    /\ strokeBuffer = [c \in Ids |-> <<>>]
    /\ drawQueue = [c \in Ids |-> <<>>]
    /\ strokeStart = [c \in Ids |-> BlankCanvas]

\* GameView unmounts: the Canvas of c and its subscription are gone.
UnmountCanvas(c) ==
    /\ canvas' = [canvas EXCEPT ![c] = BlankCanvas]
    /\ history' = [history EXCEPT ![c] = <<>>]
    /\ historyIndex' = [historyIndex EXCEPT ![c] = -1]
    /\ lastWordSelectedAt' = [lastWordSelectedAt EXCEPT ![c] = NoTime]
    /\ subscribedAs' = [subscribedAs EXCEPT ![c] = Unmounted]
    /\ tool' = [tool EXCEPT ![c] = "pen"]
    /\ isDrawing' = [isDrawing EXCEPT ![c] = FALSE]
    /\ strokeBuffer' = [strokeBuffer EXCEPT ![c] = <<>>]
    /\ drawQueue' = [drawQueue EXCEPT ![c] = <<>>]

\* floodFill has not been called.
InitFillVars ==
    filled = [called |-> FALSE, before |-> BlankBitmap(0, 0), x |-> 0, y |-> 0,
              fillColor |-> Paper, after |-> BlankBitmap(0, 0), iterations |-> 0]

\* kickPlayer is not running; `mounted` tells whether the LobbyView that
\* started the call is still the one on the page.
IdleKick == [stage |-> "idle", mounted |-> TRUE]

InitKickVars ==
    /\ kickedPlayerIds = [c \in Ids |-> {}]
    /\ kickPc = [c \in Ids |-> [t \in Ids |-> IdleKick]]

\* The clocks of the browsers agree with the clock of the store.
InitClocks == clockSkew = [c \in Ids |-> 0]

\* worker.js as loaded: intervalId is null (0), no interval is active and no
\* message has arrived; `started` and `ticked` record whether the last of the
\* 'start' and 'stop' messages handled was a 'start', and whether a 'tick'
\* was posted since.
InitWorkerJs ==
    workerJs = [intervalId |-> 0, intervals |-> {}, created |-> 0, inbox |-> <<>>,
                started |-> FALSE, ticked |-> FALSE]

\* No host game loop effect has run: no worker is alive, no dependencies
\* are remembered.
NoDeps ==
    [isHost |-> FALSE, status |-> "none", turn_ends_at |-> NoTime,
     current_drawer_index |-> 0, current_round |-> 0, players |-> NoRows,
     current_word |-> NoWord, word_selected_at |-> NoTime]

NoLoop == [alive |-> 0, ran |-> FALSE, deps |-> NoDeps]

InitWorkers ==
    /\ InitWorkerJs
    /\ hostLoop = [c \in Ids |-> NoLoop]

InitResubmit == resubmitPc = [c \in Ids |-> IdlePc]

InitUiVars ==
    /\ InitCanvasVars /\ InitFillVars /\ InitKickVars /\ InitClocks /\ InitWorkers
    /\ InitResubmit

InitGameVars ==
    /\ InitWordVars
    /\ InitUiVars
    /\ guesses = {}
    /\ now = 0
    /\ hasGuessed = [c \in Ids |-> FALSE]
    /\ awardedRef = [c \in Ids |-> NoTime]
    /\ checkPc = [c \in Ids |-> IdlePc]
    /\ awardPc = [c \in Ids |-> IdlePc]
    /\ guessPc = [c \in Ids |-> IdlePc]
    /\ resetPc = [c \in Ids |-> IdlePc]

InitLobby ==
    /\ InitGameVars
    /\ room = InitRoom
    /\ players = InsertRow(NoRows, 1, PlayerRow(0, TRUE))
    /\ present = {1}
    /\ clientRoom = [c \in Ids |-> InitRoom]
    /\ rawPlayers = [c \in Ids |-> NoRows]
    /\ onlineIds = [c \in Ids |-> {}]
    /\ hostPc = [c \in Ids |-> IdleHost]
    /\ joinPc = [c \in Ids |-> IF c = 1 THEN [stage |-> "joined", count |-> 0]
                                ELSE IdleJoin]
    /\ starting = [c \in Ids |-> FALSE]
    /\ churn = 0

\* ------------------------------------------------------------ joinRoom
\* First await: the room row is read; a room that is playing rejects.
JoinFetchRoom(c) ==
    /\ joinPc[c].stage = "idle"
    /\ \A d \in Ids : d < c => joinPc[d].stage # "idle"
    /\ joinPc' = [joinPc EXCEPT ![c] =
                    IF room.status = "playing" THEN IdleJoin
                    ELSE [stage |-> "fetched", count |-> 0]]
    /\ clientRoom' = [clientRoom EXCEPT ![c] = room]
    /\ UNCHANGED gameVars
    /\ UNCHANGED <<room, players, present, rawPlayers, onlineIds, hostPc,
                   starting, churn>>

\* Second await: the player rows are counted; a full room rejects.
JoinCount(c) ==
    /\ joinPc[c].stage = "fetched"
    /\ LET count == Cardinality(DOMAIN players)
       IN  joinPc' = [joinPc EXCEPT ![c] =
                        IF count >= clientRoom[c].settings.max_players
                        THEN IdleJoin
                        ELSE [stage |-> "counted", count |-> count]]
    /\ UNCHANGED gameVars
    /\ UNCHANGED <<room, players, present, clientRoom, rawPlayers, onlineIds,
                   hostPc, starting, churn>>

\* Third await: the row is inserted with turn_order = the count read before;
\* the page then tracks the new id in the presence channel.
JoinInsert(c) ==
    /\ joinPc[c].stage = "counted"
    /\ players' = InsertRow(players, c, PlayerRow(joinPc[c].count, FALSE))
    /\ joinPc' = [joinPc EXCEPT ![c] = [stage |-> "joined", count |-> 0]]
    /\ present' = present \cup {c}
    /\ UNCHANGED gameVars
    /\ UNCHANGED <<room, clientRoom, rawPlayers, onlineIds, hostPc, starting,
                   churn>>

\* handleLeaveRoom / onLeaveRoom: delete the own row and navigate away.
Leave(c) ==
    /\ Joined(c)
    /\ players' = DeleteRow(players, c)
    /\ present' = present \ {c}
    /\ joinPc' = [joinPc EXCEPT ![c] = [stage |-> "gone", count |-> 0]]
    /\ rawPlayers' = [rawPlayers EXCEPT ![c] = NoRows]
    /\ onlineIds' = [onlineIds EXCEPT ![c] = {}]
    /\ starting' = [starting EXCEPT ![c] = FALSE]
    /\ UNCHANGED gameVars
    /\ UNCHANGED <<room, clientRoom, hostPc, churn>>

\* ------------------------------------------------------------- presence
\* The realtime socket of a joined client drops: its key leaves the channel.
Disconnect(c) ==
    /\ Joined(c)
    /\ c \in present
    /\ churn < MaxChurn
    /\ present' = present \ {c}
    /\ churn' = churn + 1
    /\ UNCHANGED gameVars
    /\ UNCHANGED <<room, players, clientRoom, rawPlayers, onlineIds, hostPc,
                   joinPc, starting>>

\* The socket is back and the client tracks itself again.
Reconnect(c) ==
    /\ Joined(c)
    /\ c \notin present
    /\ churn < MaxChurn
    /\ present' = present \cup {c}
    /\ churn' = churn + 1
    /\ UNCHANGED gameVars
    /\ UNCHANGED <<room, players, clientRoom, rawPlayers, onlineIds, hostPc,
                   joinPc, starting>>

\* presence 'sync' handler: the full present set replaces onlineIds.
PresenceSync(c) ==
    /\ Joined(c)
    /\ c \in present
    /\ onlineIds[c] # present
    /\ onlineIds' = [onlineIds EXCEPT ![c] = present]
    /\ hostPc' = [hostPc EXCEPT ![c].fresh = TRUE]
    /\ UNCHANGED gameVars
    /\ UNCHANGED <<room, players, present, clientRoom, rawPlayers,
                   joinPc, starting, churn>>

\* refresh() / the players change handler: reload all rows of the room.  The
\* new array is a change of the dependencies of the host-transfer effect even
\* when the rows are the same; a change event follows every write to a row,
\* so a reload is possible after each run of the effect.
ReloadPlayers(c) ==
    /\ Joined(c)
    /\ c \in present
    /\ rawPlayers[c] # Snapshot(players) \/ ~hostPc[c].fresh
    /\ rawPlayers' = [rawPlayers EXCEPT ![c] = Snapshot(players)]
    /\ hostPc' = [hostPc EXCEPT ![c].fresh = TRUE]
    /\ UNCHANGED gameVars
    /\ UNCHANGED <<room, players, present, clientRoom, onlineIds,
                   joinPc, starting, churn>>

\* rooms UPDATE handler: the new row replaces the room snapshot.
RoomChanged(c) ==
    /\ joinPc[c].stage \in {"fetched", "counted"} \/ (Joined(c) /\ c \in present)
    /\ clientRoom[c] # room
    /\ clientRoom' = [clientRoom EXCEPT ![c] = room]
    \* LobbyView is mounted while the status is waiting, GameView otherwise;
    \* a component that unmounts loses its state and refs.
    /\ starting' = [starting EXCEPT ![c] =
                      IF room.status = "waiting" THEN starting[c] ELSE FALSE]
    /\ awardedRef' = [awardedRef EXCEPT ![c] =
                      IF room.status = "waiting" THEN NoTime ELSE awardedRef[c]]
    \* "Clear state when a new turn starts": word_selected_at changed.
    /\ hasGuessed' = [hasGuessed EXCEPT ![c] =
                      IF room.status = "waiting" THEN FALSE
                      ELSE IF /\ room.word_selected_at # NoTime
                              /\ room.word_selected_at # clientRoom[c].word_selected_at
                           THEN FALSE
                           ELSE hasGuessed[c]]
    /\ wordChoices' = [wordChoices EXCEPT ![c] =
                      IF room.status = "waiting" THEN <<>> ELSE wordChoices[c]]
    /\ usedWords' = [usedWords EXCEPT ![c] =
                      IF room.status = "waiting" THEN {} ELSE usedWords[c]]
    /\ IF room.status = "waiting" /\ subscribedAs[c] # Unmounted
       THEN UnmountCanvas(c)
       ELSE UNCHANGED canvasVars
    /\ kickedPlayerIds' = [kickedPlayerIds EXCEPT ![c] =
                             IF room.status = "waiting" THEN kickedPlayerIds[c] ELSE {}]
    /\ kickPc' = [kickPc EXCEPT ![c] =
                    IF room.status = "waiting" THEN kickPc[c]
                    ELSE [t \in Ids |-> [kickPc[c][t] EXCEPT !.mounted = FALSE]]]
    /\ UNCHANGED <<fillVars, restVars>>
    /\ UNCHANGED <<room, players, present, rawPlayers, onlineIds, hostPc,
                   joinPc, churn, guesses, now, pcVars>>

\* --------------------------------------------------------- host transfer
\* rawPlayers.find(p => p.is_host) over the rows in turn_order order.
CurrentHost(c) ==
    LET tbl == rawPlayers[c]
    IN  FindFirst(OrderIds(tbl, DOMAIN tbl), {i \in DOMAIN tbl : tbl[i].is_host})

\* sortedOnlinePlayers[0]
NextHost(c) ==
    LET sorted == OrderIds(rawPlayers[c], DOMAIN rawPlayers[c] \cap onlineIds[c])
    IN  IF sorted = <<>> THEN NoPlayer ELSE Head(sorted)

\* The host-transfer effect without the test that the client is the first
\* of the online players.
ShouldPromoteSelf_AnyOnline(c) ==
    /\ DOMAIN rawPlayers[c] # {}
    /\ onlineIds[c] # {}
    /\ LET currentHost == CurrentHost(c)
           isHostOnline == currentHost # NoPlayer /\ currentHost \in onlineIds[c]
       IN  /\ currentHost = NoPlayer \/ ~isHostOnline
           /\ c \in DOMAIN rawPlayers[c]
           /\ c \in onlineIds[c]
           /\ ~rawPlayers[c][c].is_host

\* The host-transfer effect reacting only when no row is flagged host.
ShouldPromoteSelf_OnlyWhenUnflagged(c) ==
    /\ DOMAIN rawPlayers[c] # {}
    /\ onlineIds[c] # {}
    /\ LET currentHost == CurrentHost(c)
       IN  /\ currentHost = NoPlayer
           /\ c \in DOMAIN rawPlayers[c]
           /\ c \in onlineIds[c]
           /\ NextHost(c) = c
           /\ ~rawPlayers[c][c].is_host

\* The predicate under which the host-transfer effect promotes the client.
ShouldPromoteSelf(c) ==
    /\ DOMAIN rawPlayers[c] # {}
    /\ onlineIds[c] # {}
    /\ LET currentHost == CurrentHost(c)
           isHostOnline == currentHost # NoPlayer /\ currentHost \in onlineIds[c]
       IN  /\ currentHost = NoPlayer \/ ~isHostOnline
           /\ c \in DOMAIN rawPlayers[c]
           /\ c \in onlineIds[c]
           /\ NextHost(c) = c
           /\ ~rawPlayers[c][c].is_host

\* The effect runs and starts the async block; currentHost is captured.
HostTransferStart(c) ==
    /\ Joined(c)
    /\ hostPc[c].stage = "idle"
    /\ hostPc[c].fresh
    /\ ShouldPromoteSelf(c)
    /\ hostPc' = [hostPc EXCEPT ![c] = [stage |-> "promote", old |-> CurrentHost(c),
                                        fresh |-> FALSE]]
    /\ UNCHANGED gameVars
    /\ UNCHANGED <<room, players, present, clientRoom, rawPlayers, onlineIds,
                   joinPc, starting, churn>>

\* 1. Promote self.
HostPromoteWrite(c) ==
    /\ hostPc[c].stage = "promote"
    /\ players' = SetHost(players, c, TRUE)
    /\ hostPc' = [hostPc EXCEPT ![c] =
                    IF hostPc[c].old # NoPlayer
                    THEN [hostPc[c] EXCEPT !.stage = "demote"]
                    ELSE [hostPc[c] EXCEPT !.stage = "idle"]]
    /\ UNCHANGED gameVars
    /\ UNCHANGED <<room, present, clientRoom, rawPlayers, onlineIds, joinPc,
                   starting, churn>>

\* 2. Demote old host if they exist.
HostDemoteWrite(c) ==
    /\ hostPc[c].stage = "demote"
    /\ players' = SetHost(players, hostPc[c].old, FALSE)
    /\ hostPc' = [hostPc EXCEPT ![c] = [@ EXCEPT !.stage = "idle", !.old = NoPlayer]]
    /\ UNCHANGED gameVars
    /\ UNCHANGED <<room, present, clientRoom, rawPlayers, onlineIds, joinPc,
                   starting, churn>>

\* The promotion write answers with an error: the block logs it and returns.
HostPromoteFails(c) ==
    /\ hostPc[c].stage = "promote"
    /\ hostPc' = [hostPc EXCEPT ![c] = [@ EXCEPT !.stage = "idle", !.old = NoPlayer]]
    /\ UNCHANGED gameVars
    /\ UNCHANGED <<room, players, present, clientRoom, rawPlayers, onlineIds, joinPc,
                   starting, churn>>

\* The demotion write answers with an error: the block logs a warning and ends.
HostDemoteFails(c) ==
    /\ hostPc[c].stage = "demote"
    /\ hostPc' = [hostPc EXCEPT ![c] = [@ EXCEPT !.stage = "idle", !.old = NoPlayer]]
    /\ UNCHANGED gameVars
    /\ UNCHANGED <<room, players, present, clientRoom, rawPlayers, onlineIds, joinPc,
                   starting, churn>>

\* ------------------------------------------------------------- startGame
\* LobbyView of client c: the players it displays and whether it is host.
\* rawPlayers.filter(p => !kickedPlayerIds.has(p.id))
DisplayedPlayers(c) == DOMAIN rawPlayers[c] \ kickedPlayerIds[c]

IsHostView(c) == c \in DisplayedPlayers(c) /\ rawPlayers[c][c].is_host

StartedRoom(r) ==
    [r EXCEPT !.status = "playing", !.current_round = 1,
              !.current_drawer_index = 0, !.turn_ends_at = NoTime,
              !.current_word = NoWord, !.word_selected_at = NoTime,
              !.max_rounds = r.settings.rounds]

\* The Start Game button (enabled with 2+ displayed players) and startGame.
StartGame(c) ==
    /\ Joined(c)
    /\ clientRoom[c].status = "waiting"
    /\ IsHostView(c)
    /\ ~starting[c]
    /\ Cardinality(DisplayedPlayers(c)) >= 2
    /\ starting' = [starting EXCEPT ![c] = TRUE]
    /\ room' = [StartedRoom(room) EXCEPT !.max_rounds = clientRoom[c].settings.rounds]
    /\ UNCHANGED gameVars
    /\ UNCHANGED <<players, present, clientRoom, rawPlayers, onlineIds, hostPc,
                   joinPc, churn>>

\* ------------------------------------------------------------ kickPlayer
\* kickPlayer(target) of c has been called and has not ended; after its end
\* the stage tells which branch logged the end: "kicked" or "failed".
KickRunning(c, target) == kickPc[c][target].stage \in {"sent", "ok", "error", "thrown"}

\* The host confirms the kick of a displayed player: the optimistic update
\* hides the player, then kick_player is called.
KickPlayer(c, target) ==
    /\ Joined(c)
    /\ clientRoom[c].status = "waiting"
    /\ IsHostView(c)
    /\ target # c
    /\ target \in DisplayedPlayers(c)
    /\ ~KickRunning(c, target)
    /\ kickedPlayerIds' = [kickedPlayerIds EXCEPT ![c] = @ \cup {target}]
    /\ kickPc' = [kickPc EXCEPT ![c][target] = [stage |-> "sent", mounted |-> TRUE]]
    /\ UNCHANGED <<lobbyVars, guesses, now, hasGuessed, awardedRef, pcVars, wordVars,
                   canvasVars, fillVars, restVars>>

\* kick_player at the store: the row of the target is deleted and the call
\* answers, or the call answers with an error, or the request throws, with
\* the row deleted (the answer was lost) or not.
KickRpc(c, target, outcome, deleted) ==
    /\ kickPc[c][target].stage = "sent"
    /\ outcome = "ok" => deleted
    /\ outcome = "error" => ~deleted
    /\ players' = IF deleted THEN DeleteRow(players, target) ELSE players
    /\ kickPc' = [kickPc EXCEPT ![c][target].stage = outcome]
    /\ UNCHANGED <<room, present, clientRoom, rawPlayers, onlineIds, hostPc, joinPc,
                   starting, churn>>
    /\ UNCHANGED <<guesses, now, hasGuessed, awardedRef, pcVars, wordVars,
                   canvasVars, fillVars, kickedPlayerIds, restVars>>

\* kickPlayer that keeps the optimistic update whatever the call answers
KickReturned_NoRevert(c, target) ==
    /\ kickPc[c][target].stage \in {"ok", "error", "thrown"}
    /\ kickPc' = [kickPc EXCEPT ![c][target].stage =
                    IF kickPc[c][target].stage = "ok" THEN "kicked" ELSE "failed"]
    /\ UNCHANGED <<lobbyVars, guesses, now, hasGuessed, awardedRef, pcVars, wordVars,
                   canvasVars, fillVars, kickedPlayerIds, restVars>>

\* The await of kick_player resumes: on an error and in the catch block the
\* optimistic update is reverted; a setter of a LobbyView that is no longer
\* mounted has no effect.
KickReturned(c, target) ==
    /\ kickPc[c][target].stage \in {"ok", "error", "thrown"}
    /\ kickedPlayerIds' =
         IF kickPc[c][target].mounted /\ kickPc[c][target].stage # "ok"
         THEN [kickedPlayerIds EXCEPT ![c] = @ \ {target}]
         ELSE kickedPlayerIds
    /\ kickPc' = [kickPc EXCEPT ![c][target].stage =
                    IF kickPc[c][target].stage = "ok" THEN "kicked" ELSE "failed"]
    /\ UNCHANGED <<lobbyVars, guesses, now, hasGuessed, awardedRef, pcVars, wordVars,
                   canvasVars, fillVars, restVars>>

\* ------------------------------------------------------------ game modes
\* GAME_MODE_CONFIG[mode].timeMultiplier, kept as twice its value
TimeMultiplierX2(mode) == IF mode = "speed" THEN 1 ELSE 2

\* GAME_MODE_CONFIG[mode].pointsMultiplier, kept as twice its value
PointsMultiplierX2(mode) == IF mode = "speed" THEN 3 ELSE 2

GetEffectiveDrawTime_NoMultiplier(settings) == settings.draw_time

\* Math.floor(baseTime * modeConfig.timeMultiplier)
GetEffectiveDrawTime(settings) ==
    (settings.draw_time * TimeMultiplierX2(settings.game_mode)) \div 2

\* Math.floor(totalTime / modeConfig.relayPasses)
GetRelaySegmentTime(settings) ==
    GetEffectiveDrawTime(settings) \div
        (IF settings.game_mode = "relay" THEN RelayPasses ELSE 1)

Min2(a, b) == IF a <= b THEN a ELSE b
Max2(a, b) == IF a >= b THEN a ELSE b

GetRelayDrawerIndex_NoClamp(settings, wordSelectedAt, turnEndsAt, t) ==
    IF wordSelectedAt = NoTime \/ turnEndsAt = NoTime \/ settings.game_mode # "relay"
    THEN 0
    ELSE Max2(0, t - wordSelectedAt) \div GetRelaySegmentTime(settings)

\* getRelayDrawerIndex at clock value t
GetRelayDrawerIndex(settings, wordSelectedAt, turnEndsAt, t) ==
    IF wordSelectedAt = NoTime \/ turnEndsAt = NoTime \/ settings.game_mode # "relay"
    THEN 0
    ELSE LET elapsedSeconds == Max2(0, t - wordSelectedAt)
         IN  Min2(elapsedSeconds \div GetRelaySegmentTime(settings), RelayPasses - 1)

\* getRelayDrawerId over the player rows tbl
GetRelayDrawerId(tbl, baseDrawerIndex, relaySegment) ==
    IF DOMAIN tbl = {} THEN NoPlayer
    ELSE LET sortedPlayers == OrderIds(tbl, DOMAIN tbl)
             n == Len(sortedPlayers)
             effectiveIndex == (baseDrawerIndex + relaySegment) % n
             drawer == FindFirst(sortedPlayers,
                                 {i \in DOMAIN tbl : tbl[i].turn_order = effectiveIndex})
         IN  IF drawer # NoPlayer THEN drawer
             ELSE sortedPlayers[(effectiveIndex % n) + 1]

\* ---------------------------------------------------------- guess matching
\* The characters of the texts the model uses (a string is the sequence of
\* its characters).
Spell(text) ==
    CASE text = "apple"     -> <<"a", "p", "p", "l", "e">>
      [] text = "APPLE"     -> <<"A", "P", "P", "L", "E">>
      [] text = "  Apple "  -> <<" ", " ", "A", "p", "p", "l", "e", " ">>
      [] text = "appel"     -> <<"a", "p", "p", "e", "l">>
      [] text = "ap ple"    -> <<"a", "p", " ", "p", "l", "e">>
      [] text = "app"       -> <<"a", "p", "p">>
      [] text = "TEA POT"   -> <<"T", "E", "A", " ", "P", "O", "T">>
      [] text = "tea\tpot"  -> <<"t", "e", "a", "\t", "p", "o", "t">>
      [] text = " "         -> <<" ">>

UpperLetters == <<"A", "B", "C", "D", "E", "F", "G", "H", "I", "J", "K", "L", "M",
                  "N", "O", "P", "Q", "R", "S", "T", "U", "V", "W", "X", "Y", "Z">>
LowerLetters == <<"a", "b", "c", "d", "e", "f", "g", "h", "i", "j", "k", "l", "m",
                  "n", "o", "p", "q", "r", "s", "t", "u", "v", "w", "x", "y", "z">>

\* The characters \s matches and trim() strips, as far as the texts have them.
Whitespace == {" ", "\t"}

\* String.prototype.toLowerCase
ToLowerCase(chars) ==
    [i \in 1 .. Len(chars) |->
        IF \E k \in 1 .. 26 : UpperLetters[k] = chars[i]
        THEN LowerLetters[CHOOSE k \in 1 .. 26 : UpperLetters[k] = chars[i]]
        ELSE chars[i]]

RECURSIVE TrimStart(_)
TrimStart(chars) ==
    IF chars # <<>> /\ Head(chars) \in Whitespace THEN TrimStart(Tail(chars))
    ELSE chars

RECURSIVE TrimEnd(_)
TrimEnd(chars) ==
    IF chars # <<>> /\ chars[Len(chars)] \in Whitespace
    THEN TrimEnd(SubSeq(chars, 1, Len(chars) - 1))
    ELSE chars

\* String.prototype.trim
Trim(chars) == TrimEnd(TrimStart(chars))

\* replace(/\s+/g, '')
RemoveWhitespace(chars) == SelectSeq(chars, LAMBDA ch : ch \notin Whitespace)

\* isFuzzyMatch comparing the texts without lowercasing them.
IsFuzzyMatch_CaseSensitive(guess, target) ==
    LET guessNorm == RemoveWhitespace(Trim(Spell(guess)))
        targetNorm == RemoveWhitespace(Trim(Spell(target)))
    IN  guessNorm = targetNorm

\* isFuzzyMatch: "STRICT: Exact match only"
IsFuzzyMatch(guess, target) ==
    LET guessNorm == RemoveWhitespace(Trim(ToLowerCase(Spell(guess))))
        targetNorm == RemoveWhitespace(Trim(ToLowerCase(Spell(target))))
    IN  guessNorm = targetNorm

\* ---------------------------------------------------------------- scoring
\* calculateGuessPoints: Math.round(max(1000 - s * 12.5, 100) * multiplier),
\* computed in eighths of a point (points in halves, multiplier in quarters).
RankMultiplierX4(guessRank) ==
    IF guessRank = 1 THEN 4 ELSE IF guessRank = 2 THEN 3 ELSE 2

\* calculateGuessPoints cutting the fraction off instead of rounding.
CalculateGuessPoints_Truncating(secondsElapsed, guessRank) ==
    LET pointsX2 == Max2(2 * BASE_POINTS - secondsElapsed * DECAY_PER_SECOND_X2,
                         2 * MIN_POINTS)
    IN  (pointsX2 * RankMultiplierX4(guessRank) ) \div 8

CalculateGuessPoints(secondsElapsed, guessRank) ==
    LET pointsX2 == Max2(2 * BASE_POINTS - secondsElapsed * DECAY_PER_SECOND_X2,
                         2 * MIN_POINTS)
    IN  (pointsX2 * RankMultiplierX4(guessRank) + 4) \div 8

\* applyModePointsMultiplier: Math.floor(basePoints * multiplier)
ApplyModePointsMultiplier(basePoints, gameMode) ==
    (basePoints * PointsMultiplierX2(gameMode)) \div 2

\* ------------------------------------------------- GameView of client c
GameMounted(c) ==
    /\ Joined(c)
    /\ c \in DOMAIN rawPlayers[c]
    /\ clientRoom[c].status = "playing"

\* safestBaseDrawer
SafestBaseDrawer(c) ==
    LET tbl == rawPlayers[c]
        list == OrderIds(tbl, DOMAIN tbl)
        idx == clientRoom[c].current_drawer_index
        baseDrawer == FindFirst(list, {i \in DOMAIN tbl : tbl[i].turn_order = idx})
    IN  IF baseDrawer # NoPlayer THEN baseDrawer
        ELSE IF Len(list) > 0 /\ idx = 0 THEN list[1]
        ELSE NoPlayer

\* safestDrawer: the drawer after the relay rotation
SafestDrawer(c) ==
    LET r == clientRoom[c]
        base == SafestBaseDrawer(c)
        segment == GetRelayDrawerIndex(r.settings, r.word_selected_at,
                                       r.turn_ends_at, ClientNow(c))
        relayDrawerId == IF r.settings.game_mode = "relay" /\ base # NoPlayer
                         THEN GetRelayDrawerId(rawPlayers[c], r.current_drawer_index,
                                               segment)
                         ELSE base
    IN  IF relayDrawerId \in DOMAIN rawPlayers[c] THEN relayDrawerId ELSE base

IsDrawer(c) == SafestDrawer(c) = c

\* The scoreboard overlay is shown: the deadline of the snapshot has passed.
ShowScoreboard(c) ==
    /\ clientRoom[c].turn_ends_at # NoTime
    /\ ClientNow(c) > clientRoom[c].turn_ends_at

\* Correct guesses recorded after the given word_selected_at.
CorrectSince(wsa) == {g \in guesses : g.is_correct /\ g.guessed_at > wsa}

AddScore(tbl, id, points) ==
    IF id \in DOMAIN tbl THEN [tbl EXCEPT ![id].score = @ + points] ELSE tbl

\* ------------------------------------------------------------------ clock
\* Time passes.  Only the deadline of the running turn is compared with the
\* clock, so the clock is left alone once that deadline has passed.
Tick ==
    /\ now < MaxTime
    /\ room.turn_ends_at # NoTime
    /\ now <= room.turn_ends_at
    /\ now' = now + 1
    /\ UNCHANGED <<lobbyVars, guesses, hasGuessed, awardedRef, pcVars>>
    /\ UNCHANGED wordVars
    /\ UNCHANGED uiVars

\* ------------------------------------------------------------ word choices
\* The word pools of the three difficulties.
WORDS_EASY == <<"cat", "sun">>
WORDS_MEDIUM == <<"robot">>
WORDS_HARD == <<"galaxy">>

\* String.prototype.toUpperCase on the words of the pools
ToUpperCase(w) ==
    CASE w = "cat" -> "CAT"
      [] w = "sun" -> "SUN"
      [] w = "robot" -> "ROBOT"
      [] w = "galaxy" -> "GALAXY"
      [] OTHER -> w

Range(seq) == {seq[i] : i \in 1 .. Len(seq)}

\* DIFFICULTY_CONFIG[difficulty].drawerBonus
DrawerBonus(difficulty) ==
    CASE difficulty = "easy" -> 25
      [] difficulty = "medium" -> 50
      [] difficulty = "hard" -> 100

\* getRandomWord: the words Math.random can make it return
GetRandomWord(pool, used) ==
    LET availableWords == {w \in Range(pool) : ToUpperCase(w) \notin used}
    IN  IF availableWords = {}
        THEN {ToUpperCase(w) : w \in Range(pool)}
        ELSE {ToUpperCase(w) : w \in availableWords}

PoolOf(difficulty) ==
    CASE difficulty = "easy" -> WORDS_EASY
      [] difficulty = "medium" -> WORDS_MEDIUM
      [] difficulty = "hard" -> WORDS_HARD

WordChoicesOf(difficulty, used) ==
    {[word |-> w, difficulty |-> difficulty, bonusPoints |-> DrawerBonus(difficulty)] :
        w \in GetRandomWord(PoolOf(difficulty), used)}

\* shuffleArray: the orders Math.random can produce
ShuffleArray(array) ==
    LET n == Len(array)
        perms == {p \in [1 .. n -> 1 .. n] : \A i, j \in 1 .. n : i # j => p[i] # p[j]}
    IN  {[i \in 1 .. n |-> array[p[i]]] : p \in perms}

\* getWordChoices: the arrays it can return
GetWordChoices(used, wordCount) ==
    LET lists ==
            IF wordCount >= 3
            THEN {<<e, m, h>> : e \in WordChoicesOf("easy", used),
                                m \in WordChoicesOf("medium", used),
                                h \in WordChoicesOf("hard", used)}
            ELSE IF wordCount = 2
            THEN {<<e, m>> : e \in WordChoicesOf("easy", used),
                             m \in WordChoicesOf("medium", used)}
            ELSE {<<x>> : x \in UNION {WordChoicesOf(d, used) :
                                            d \in {"easy", "medium", "hard"}}}
    IN  UNION {ShuffleArray(l) : l \in lists}

\* showWordModal as the word-selection effect sets it
ShowWordModal(c) ==
    /\ GameMounted(c)
    /\ IsDrawer(c)
    /\ clientRoom[c].current_word = NoWord

\* The word-selection effect of a mounted GameView: candidates are generated
\* when the client is to select and has none, and dropped when the selection
\* is over.
WordSelectionEffect(c) ==
    /\ Joined(c)
    /\ c \in DOMAIN rawPlayers[c]
    /\ clientRoom[c].status # "waiting"
    /\ IF ShowWordModal(c)
       THEN /\ wordChoices[c] = <<>>
            /\ \E choices \in GetWordChoices(usedWords[c], OfferedWordCount) :
                  wordChoices' = [wordChoices EXCEPT ![c] = choices]
       ELSE /\ wordChoices[c] # <<>>
            /\ wordChoices' = [wordChoices EXCEPT ![c] = <<>>]
    /\ UNCHANGED <<lobbyVars, guesses, now, hasGuessed, awardedRef, pcVars,
                   usedWords, uiVars>>

\* guesserIds: everyone connected except the connected player whose
\* turn_order is current_drawer_index, over the rows tbl, the presence set
\* online and the room r of one render.
GuesserIdsOf(r, tbl, online) ==
    LET connected == DOMAIN tbl \cap online
        currentDrawerObj ==
            FindFirst(OrderIds(tbl, connected),
                      {i \in connected : tbl[i].turn_order = r.current_drawer_index})
    IN  connected \ {currentDrawerObj}

GuesserIds(c) == GuesserIdsOf(clientRoom[c], rawPlayers[c], onlineIds[c])

\* checkAndEndTurnIfAllGuessed of client c up to its update: the guards on the
\* room, rows and presence set of the render that created the callback, then
\* the query for the correct guesses of the turn.
AllGuessed(c, r, tbl, online) ==
    /\ c \in DOMAIN tbl /\ tbl[c].is_host
    /\ r.turn_ends_at # NoTime
    /\ r.current_word # NoWord
    /\ r.word_selected_at # NoTime
    /\ ClientNow(c) < r.turn_ends_at
    /\ GuesserIdsOf(r, tbl, online) # {}
    /\ LET successfulGuesserIds ==
               {g.player_id : g \in CorrectSince(r.word_selected_at)}
       IN  GuesserIdsOf(r, tbl, online) \subseteq successfulGuesserIds

\* A worker tick of the host game loop runs the check; `turn` is the
\* word_selected_at of the room the callback was created with.
CheckQuery(c) ==
    /\ GameMounted(c)
    /\ checkPc[c].stage = "idle"
    /\ AllGuessed(c, clientRoom[c], rawPlayers[c], onlineIds[c])
    /\ checkPc' = [checkPc EXCEPT ![c] =
                     [stage |-> "update", turn |-> clientRoom[c].word_selected_at]]
    /\ UNCHANGED <<lobbyVars, guesses, now, hasGuessed, awardedRef, awardPc,
                   guessPc, resetPc>>
    /\ UNCHANGED wordVars
    /\ UNCHANGED uiVars

\* The update that force-ends the turn: turn_ends_at = now, nothing else.
CheckUpdate(c) ==
    /\ checkPc[c].stage = "update"
    /\ now < MaxTime
    /\ room' = [room EXCEPT !.turn_ends_at = ClientNow(c)]
    /\ now' = now + 1
    /\ checkPc' = [checkPc EXCEPT ![c] = IdlePc]
    /\ UNCHANGED <<players, present, clientRoom, rawPlayers, onlineIds, hostPc,
                   joinPc, starting, churn, guesses, hasGuessed, awardedRef,
                   awardPc, guessPc, resetPc>>
    /\ UNCHANGED wordVars
    /\ UNCHANGED uiVars

\* ------------------------------------------------------------- selectWord
\* selectWord: the word is remembered as used by this client and written to
\* the room with the deadline of the turn.
SelectWord(c, word) ==
    /\ GameMounted(c)
    /\ IsDrawer(c)
    /\ clientRoom[c].current_word = NoWord
    /\ now < MaxTime
    /\ room' = [room EXCEPT
                  !.current_word = word,
                  !.turn_ends_at = ClientNow(c) + GetEffectiveDrawTime(clientRoom[c].settings),
                  !.word_selected_at = ClientNow(c)]
    /\ now' = now + 1
    /\ usedWords' = [usedWords EXCEPT ![c] = @ \cup {word}]
    /\ UNCHANGED <<players, present, clientRoom, rawPlayers, onlineIds, hostPc,
                   joinPc, starting, churn, guesses, hasGuessed, awardedRef,
                   pcVars, wordChoices, uiVars>>

\* The drawer clicks one of the candidates of the modal.
ChooseWord(c) ==
    /\ ShowWordModal(c)
    /\ \E i \in 1 .. Len(wordChoices[c]) : SelectWord(c, wordChoices[c][i].word)

\* The selection countdown has reached zero: the first candidate is selected.
AutoSelectWord(c) ==
    /\ ShowWordModal(c)
    /\ Len(wordChoices[c]) > 0
    /\ SelectWord(c, wordChoices[c][1].word)

\* ------------------------------------------------------------ gameLogic
\* A point is the pixel that its normalised coordinates fall into.
PixelIndex(bm, x, y) == y * bm.width + x

InBitmap(bm, x, y) == x >= 0 /\ x < bm.width /\ y >= 0 /\ y < bm.height

\* The pixels a line from p to q passes through.
LinePixels(bm, p, q) ==
    {i \in DOMAIN bm.data :
        LET x == i % bm.width
            y == i \div bm.width
        IN  /\ x >= Min2(p.x, q.x) /\ x <= Max2(p.x, q.x)
            /\ y >= Min2(p.y, q.y) /\ y <= Max2(p.y, q.y)
            /\ (q.x - p.x) * (y - p.y) = (q.y - p.y) * (x - p.x)}

\* moveTo(prev), lineTo(point), stroke()
DrawLine(bm, p, q, color) ==
    [bm EXCEPT !.data = [i \in DOMAIN bm.data |->
                            IF i \in LinePixels(bm, p, q) THEN color ELSE bm.data[i]]]

RECURSIVE DrawLines(_, _, _)
DrawLines(bm, points, color) ==
    IF Len(points) < 2 THEN bm
    ELSE DrawLines(DrawLine(bm, points[1], points[2], color), Tail(points), color)

\* drawStroke; reading the length of points that are undefined throws and
\* leaves the bitmap as it is
DrawStroke(bm, points, color) ==
    IF ~points.defined THEN bm
    ELSE IF Len(points.value) < 2 THEN bm
    ELSE DrawLines(bm, points.value, color)

\* matchColor: a position outside the data reads undefined
MatchColor(bm, data, x, y, target) ==
    LET pos == PixelIndex(bm, x, y)
    IN  pos \in DOMAIN data /\ data[pos] = target

\* while (y >= 0 && matchColor(pixelPos)) y--
RECURSIVE ScanUp(_, _, _, _, _)
ScanUp(bm, data, x, y, target) ==
    IF y >= 0 /\ MatchColor(bm, data, x, y, target)
    THEN ScanUp(bm, data, x, y - 1, target)
    ELSE y

\* while (y < height && matchColor(pixelPos)) { colorPixel; look left and
\* right; y++ }: st holds data, stack, y, reachLeft and reachRight
RECURSIVE ScanDown(_, _, _, _, _)
ScanDown(bm, st, x, target, fill) ==
    IF ~(st.y < bm.height /\ MatchColor(bm, st.data, x, st.y, target)) THEN st
    ELSE LET data1 == [st.data EXCEPT ![PixelIndex(bm, x, st.y)] = fill]
             leftMatch == x > 0 /\ MatchColor(bm, data1, x - 1, st.y, target)
             rightMatch == x < bm.width - 1 /\ MatchColor(bm, data1, x + 1, st.y, target)
             stack1 == IF leftMatch /\ ~st.reachLeft
                       THEN Append(st.stack, <<x - 1, st.y>>) ELSE st.stack
             stack2 == IF rightMatch /\ ~st.reachRight
                       THEN Append(stack1, <<x + 1, st.y>>) ELSE stack1
             reachLeft1 == IF x > 0 THEN leftMatch ELSE st.reachLeft
             reachRight1 == IF x < bm.width - 1 THEN rightMatch ELSE st.reachRight
         IN  ScanDown(bm, [data |-> data1, stack |-> stack2, y |-> st.y + 1,
                           reachLeft |-> reachLeft1, reachRight |-> reachRight1],
                      x, target, fill)

\* while (stack.length) { pop; scan up; scan down; iterations++; break when
\* iterations > MAX_ITERATIONS }
RECURSIVE FillLoop(_, _, _, _, _, _)
FillLoop(bm, data, stack, iterations, target, fill) ==
    IF stack = <<>> THEN [data |-> data, iterations |-> iterations]
    ELSE LET pop == stack[Len(stack)]
             rest == SubSeq(stack, 1, Len(stack) - 1)
             x == pop[1]
             top == ScanUp(bm, data, x, pop[2], target) + 1
             st == ScanDown(bm, [data |-> data, stack |-> rest, y |-> top,
                                 reachLeft |-> FALSE, reachRight |-> FALSE],
                            x, target, fill)
         IN  IF iterations + 1 > bm.width * bm.height
             THEN [data |-> st.data, iterations |-> iterations + 1]
             ELSE FillLoop(bm, st.data, st.stack, iterations + 1, target, fill)

\* floodFill without the return for a seed that has the fill colour
FloodFill_NoEarlyReturn(bm, px, py, fillColor) ==
    IF ~InBitmap(bm, px, py) THEN [bitmap |-> bm, iterations |-> 0]
    ELSE LET target == bm.data[PixelIndex(bm, px, py)]
             r == FillLoop(bm, bm.data, <<<<px, py>>>>, 0, target, fillColor)
         IN  [bitmap |-> [bm EXCEPT !.data = r.data], iterations |-> r.iterations]

\* floodFill at pixel (px, py): the bitmap it leaves and the number of
\* iterations of its loop
FloodFill(bm, px, py, fillColor) ==
    IF ~InBitmap(bm, px, py) THEN [bitmap |-> bm, iterations |-> 0]
    ELSE LET target == bm.data[PixelIndex(bm, px, py)]
         IN  IF target = fillColor THEN [bitmap |-> bm, iterations |-> 0]
             ELSE LET r == FillLoop(bm, bm.data, <<<<px, py>>>>, 0, target, fillColor)
                  IN  [bitmap |-> [bm EXCEPT !.data = r.data],
                       iterations |-> r.iterations]

\* ----------------------------------------------------------------- Canvas
Points == {[x |-> i, y |-> j] : i \in 0 .. CanvasWidth - 1, j \in 0 .. CanvasHeight - 1}

\* payload of a stroke broadcast; `from` is the sending client
Payload(from, t, points, at, imageData) ==
    [tool |-> t, color |-> Black, points |-> points, at |-> at,
     imageData |-> imageData, from |-> from]

NoPoint == [x |-> -1, y |-> -1]

\* payload.points of a payload with and without that field
Defined(points) == [defined |-> TRUE, value |-> points]
Undefined == [defined |-> FALSE, value |-> <<>>]

\* payload.imageData of a payload without that field
NoImage == BlankBitmap(0, 0)

\* supabase.channel(`room_draw:...`).send: every other subscribed client
\* will receive the payload
Send(from, payload) ==
    drawQueue' = [d \in Ids |->
                    IF d # from /\ subscribedAs[d] # Unmounted
                    THEN Append(drawQueue[d], payload)
                    ELSE drawQueue[d]]

QueueRoom(from) == \A d \in Ids \ {from} : Len(drawQueue[d]) < MaxQueue

\* the isDrawer prop GameView passes to Canvas
CanvasRole(c) == IF IsDrawer(c) THEN Drawer ELSE Observer

\* An effect of Canvas has not run yet for the props of the last render.
EffectsPending(c) ==
    /\ GameMounted(c)
    /\ \/ subscribedAs[c] # CanvasRole(c)
       \/ lastWordSelectedAt[c] # clientRoom[c].word_selected_at

\* React runs the effects of a render before the next event is handled.
CanvasReady(c) ==
    /\ GameMounted(c)
    /\ ~EffectsPending(c)

\* The effects of Canvas after a render: the subscription effect (deps roomId,
\* isDrawer) paints the canvas white and subscribes with the new isDrawer;
\* the turn-change effect clears canvas and history when the wordSelectedAt
\* prop differs from the non-null value seen before.
CanvasEffect(c) ==
    /\ EffectsPending(c)
    /\ LET resubscribe == subscribedAs[c] # CanvasRole(c)
           turnChanged == /\ lastWordSelectedAt[c] # NoTime
                          /\ lastWordSelectedAt[c] # clientRoom[c].word_selected_at
       IN  /\ canvas' = [canvas EXCEPT ![c] =
                           IF resubscribe \/ turnChanged THEN BlankCanvas ELSE @]
           /\ history' = [history EXCEPT ![c] = IF turnChanged THEN <<>> ELSE @]
           /\ historyIndex' = [historyIndex EXCEPT ![c] = IF turnChanged THEN -1 ELSE @]
    /\ subscribedAs' = [subscribedAs EXCEPT ![c] = CanvasRole(c)]
    /\ lastWordSelectedAt' = [lastWordSelectedAt EXCEPT ![c] =
                                clientRoom[c].word_selected_at]
    /\ UNCHANGED <<tool, isDrawing, strokeBuffer, drawQueue>>
    /\ UNCHANGED <<lobbyVars, guesses, now, hasGuessed, awardedRef, pcVars, wordVars,
                   nonCanvasVars>>

\* The pointer of the drawer reaches the canvas and its toolbar: neither the
\* word selector nor the scoreboard overlay lies above them.
PointerOnCanvas(c) ==
    /\ CanvasReady(c)
    /\ IsDrawer(c)
    /\ ~ShowWordModal(c)
    /\ ~ShowScoreboard(c)

\* The drawer clicks a tool of the toolbar.
SetTool(c, t) ==
    /\ PointerOnCanvas(c)
    /\ ~isDrawing[c]
    /\ tool[c] # t
    /\ tool' = [tool EXCEPT ![c] = t]
    /\ UNCHANGED <<canvas, history, historyIndex, lastWordSelectedAt, subscribedAs,
                   isDrawing, strokeBuffer, drawQueue>>
    /\ UNCHANGED <<lobbyVars, guesses, now, hasGuessed, awardedRef, pcVars, wordVars,
                   nonCanvasVars>>

StrokeColor(t) == IF t = "eraser" THEN Paper ELSE Black

\* handleStart: mouse or finger goes down at a point of the canvas
HandleStart(c, point) ==
    /\ PointerOnCanvas(c)
    /\ ~isDrawing[c]
    /\ strokeBuffer' = [strokeBuffer EXCEPT ![c] = <<point>>]
    /\ IF tool[c] = "fill"
       THEN /\ QueueRoom(c)
            /\ canvas' = [canvas EXCEPT ![c] =
                            FloodFill(@, point.x, point.y, Black).bitmap]
            /\ Send(c, Payload(c, "fill", Undefined, point, NoImage))
            /\ UNCHANGED <<isDrawing, strokeStart>>
       ELSE /\ isDrawing' = [isDrawing EXCEPT ![c] = TRUE]
            /\ strokeStart' = [strokeStart EXCEPT ![c] = canvas[c]]
            /\ UNCHANGED <<canvas, drawQueue>>
    /\ UNCHANGED <<history, historyIndex, lastWordSelectedAt, subscribedAs, tool>>
    /\ UNCHANGED <<lobbyVars, guesses, now, hasGuessed, awardedRef, pcVars, wordVars,
                   fillVars, kickVars, clockSkew, resubmitPc,
                   workerVars>>

\* handleMove: the pointer moves to a point; the segment is drawn locally and
\* the buffered points are broadcast unless the last broadcast was less than
\* BROADCAST_INTERVAL ago (throttled)
HandleMove(c, point, throttled) ==
    /\ PointerOnCanvas(c)
    /\ isDrawing[c]
    /\ Len(strokeBuffer[c]) < MaxPoints
    /\ LET buffer == Append(strokeBuffer[c], point)
           prev == buffer[Len(buffer) - 1]
       IN  /\ canvas' = [canvas EXCEPT ![c] = DrawLine(@, prev, point, StrokeColor(tool[c]))]
           /\ IF throttled
              THEN /\ strokeBuffer' = [strokeBuffer EXCEPT ![c] = buffer]
                   /\ UNCHANGED drawQueue
              ELSE /\ QueueRoom(c)
                   /\ Send(c, Payload(c, tool[c], Defined(buffer), NoPoint, NoImage))
                   /\ strokeBuffer' = [strokeBuffer EXCEPT ![c] = <<point>>]
    /\ UNCHANGED <<history, historyIndex, lastWordSelectedAt, subscribedAs, tool,
                   isDrawing>>
    /\ UNCHANGED <<lobbyVars, guesses, now, hasGuessed, awardedRef, pcVars, wordVars,
                   nonCanvasVars>>

\* saveToHistory without the limit on the size of the history
SaveToHistory_NoLimit(h, idx, imageData) ==
    LET pushed == Append(SubSeq(h, 1, idx + 1), imageData)
    IN  [history |-> pushed, index |-> idx + 1]

\* saveToHistory: the history and index after the image was saved
SaveToHistory(h, idx, imageData) ==
    LET pushed == Append(SubSeq(h, 1, idx + 1), imageData)
    IN  IF Len(pushed) > MAX_HISTORY
        THEN [history |-> Tail(pushed), index |-> idx]
        ELSE [history |-> pushed, index |-> idx + 1]

\* handleEnd: the pointer is lifted or leaves the canvas
HandleEnd(c) ==
    /\ PointerOnCanvas(c)
    /\ isDrawing[c]
    /\ QueueRoom(c)
    /\ isDrawing' = [isDrawing EXCEPT ![c] = FALSE]
    /\ IF Len(strokeBuffer[c]) > 0
       THEN Send(c, Payload(c, tool[c], Defined(strokeBuffer[c]), NoPoint, NoImage))
       ELSE UNCHANGED drawQueue
    /\ strokeBuffer' = [strokeBuffer EXCEPT ![c] = <<>>]
    /\ LET saved == SaveToHistory(history[c], historyIndex[c], canvas[c])
       IN  /\ history' = [history EXCEPT ![c] = saved.history]
           /\ historyIndex' = [historyIndex EXCEPT ![c] = saved.index]
    /\ strokeStart' = [strokeStart EXCEPT ![c] = BlankCanvas]
    /\ UNCHANGED <<canvas, lastWordSelectedAt, subscribedAs, tool>>
    /\ UNCHANGED <<lobbyVars, guesses, now, hasGuessed, awardedRef, pcVars, wordVars,
                   fillVars, kickVars, clockSkew, resubmitPc,
                   workerVars>>

\* undo: the previous snapshot is put on the canvas and broadcast
Undo(c) ==
    /\ PointerOnCanvas(c)
    /\ historyIndex[c] > 0
    /\ QueueRoom(c)
    /\ LET imageData == history[c][historyIndex[c]]
       IN  /\ canvas' = [canvas EXCEPT ![c] = imageData]
           /\ Send(c, Payload(c, "undo", Undefined, NoPoint, imageData))
    /\ historyIndex' = [historyIndex EXCEPT ![c] = @ - 1]
    /\ UNCHANGED <<history, lastWordSelectedAt, subscribedAs, tool, isDrawing,
                   strokeBuffer>>
    /\ UNCHANGED <<lobbyVars, guesses, now, hasGuessed, awardedRef, pcVars, wordVars,
                   nonCanvasVars>>

\* redo: the next snapshot is put on the canvas and broadcast
Redo(c) ==
    /\ PointerOnCanvas(c)
    /\ historyIndex[c] < Len(history[c]) - 1
    /\ QueueRoom(c)
    /\ LET imageData == history[c][historyIndex[c] + 2]
       IN  /\ canvas' = [canvas EXCEPT ![c] = imageData]
           /\ Send(c, Payload(c, "redo", Undefined, NoPoint, imageData))
    /\ historyIndex' = [historyIndex EXCEPT ![c] = @ + 1]
    /\ UNCHANGED <<history, lastWordSelectedAt, subscribedAs, tool, isDrawing,
                   strokeBuffer>>
    /\ UNCHANGED <<lobbyVars, guesses, now, hasGuessed, awardedRef, pcVars, wordVars,
                   nonCanvasVars>>

\* clearCanvas: the drawer clicks the bin
ClearCanvas(c) ==
    /\ PointerOnCanvas(c)
    /\ QueueRoom(c)
    /\ LET saved == SaveToHistory(history[c], historyIndex[c], canvas[c])
       IN  /\ history' = [history EXCEPT ![c] = saved.history]
           /\ historyIndex' = [historyIndex EXCEPT ![c] = saved.index]
    /\ canvas' = [canvas EXCEPT ![c] = BlankCanvas]
    /\ Send(c, Payload(c, "clear", Undefined, NoPoint, NoImage))
    /\ UNCHANGED <<lastWordSelectedAt, subscribedAs, tool, isDrawing, strokeBuffer>>
    /\ UNCHANGED <<lobbyVars, guesses, now, hasGuessed, awardedRef, pcVars, wordVars,
                   nonCanvasVars>>

\* what the broadcast handler of an observer does to its bitmap
ApplyPayload(bm, payload) ==
    IF payload.tool = "fill"
    THEN FloodFill(bm, payload.at.x, payload.at.y, payload.color).bitmap
    ELSE IF payload.tool = "clear" THEN BlankBitmap(bm.width, bm.height)
    ELSE DrawStroke(bm, payload.points,
                    IF payload.tool = "eraser" THEN Paper ELSE payload.color)

\* The next broadcast reaches c: the handler of its subscription runs.
ReceiveBroadcast(c) ==
    /\ CanvasReady(c)
    /\ drawQueue[c] # <<>>
    /\ drawQueue' = [drawQueue EXCEPT ![c] = Tail(@)]
    /\ canvas' = [canvas EXCEPT ![c] =
                    IF subscribedAs[c] = Observer
                    THEN ApplyPayload(@, Head(drawQueue[c]))
                    ELSE @]
    /\ UNCHANGED <<history, historyIndex, lastWordSelectedAt, subscribedAs, tool,
                   isDrawing, strokeBuffer>>
    /\ UNCHANGED <<lobbyVars, guesses, now, hasGuessed, awardedRef, pcVars, wordVars,
                   nonCanvasVars>>

\* ------------------------------------------------------- drawer points
\* The turn-end effect of a host: mark the turn as awarded and count the
\* correct guesses of the turn.
AwardCount(c) ==
    /\ GameMounted(c) \/ (Joined(c) /\ c \in DOMAIN rawPlayers[c]
                          /\ clientRoom[c].status = "finished")
    /\ awardPc[c].stage = "idle"
    /\ ShowScoreboard(c)
    /\ IsHostView(c)
    /\ SafestDrawer(c) # NoPlayer
    /\ clientRoom[c].word_selected_at # NoTime
    /\ awardedRef[c] # clientRoom[c].word_selected_at
    /\ awardedRef' = [awardedRef EXCEPT ![c] = clientRoom[c].word_selected_at]
    /\ LET count == Cardinality(CorrectSince(clientRoom[c].word_selected_at))
       IN  awardPc' = [awardPc EXCEPT ![c] =
                         IF count > 0
                         THEN [stage |-> "increment", drawer |-> SafestDrawer(c),
                               points |-> count * DrawerPointsPerGuess]
                         ELSE IdlePc]
    /\ UNCHANGED <<lobbyVars, guesses, now, hasGuessed, checkPc, guessPc, resetPc>>
    /\ UNCHANGED wordVars
    /\ UNCHANGED uiVars

\* rpc increment_player_score for the drawer
AwardIncrement(c) ==
    /\ awardPc[c].stage = "increment"
    /\ players' = AddScore(players, awardPc[c].drawer, awardPc[c].points)
    /\ awardPc' = [awardPc EXCEPT ![c] = IdlePc]
    /\ UNCHANGED <<room, present, clientRoom, rawPlayers, onlineIds, hostPc,
                   joinPc, starting, churn, guesses, now, hasGuessed, awardedRef,
                   checkPc, guessPc, resetPc>>
    /\ UNCHANGED wordVars
    /\ UNCHANGED uiVars

\* ---------------------------------------------------------------- nextTurn
\* nextTurn taking the first player at or after the current ordinal.
NextTurnUpdate_AtOrAfter(r, tbl) ==
    LET sortedPlayers == OrderIds(tbl, DOMAIN tbl)
        found == FindFirst(sortedPlayers,
                           {i \in DOMAIN tbl : tbl[i].turn_order >= r.current_drawer_index})
        wrap == found = NoPlayer
        nextPlayer == IF wrap THEN sortedPlayers[1] ELSE found
        nextRound == IF wrap THEN r.current_round + 1 ELSE r.current_round
        nextStatus == IF wrap /\ nextRound > r.max_rounds THEN "finished" ELSE "playing"
    IN  [current_drawer_index |-> tbl[nextPlayer].turn_order,
         current_round |-> nextRound,
         status |-> nextStatus]

\* nextTurn finishing the game one round early.
NextTurnUpdate_FinishEarly(r, tbl) ==
    LET sortedPlayers == OrderIds(tbl, DOMAIN tbl)
        found == FindFirst(sortedPlayers,
                           {i \in DOMAIN tbl : tbl[i].turn_order > r.current_drawer_index})
        wrap == found = NoPlayer
        nextPlayer == IF wrap THEN sortedPlayers[1] ELSE found
        nextRound == IF wrap THEN r.current_round + 1 ELSE r.current_round
        nextStatus == IF wrap /\ nextRound >= r.max_rounds THEN "finished" ELSE "playing"
    IN  [current_drawer_index |-> tbl[nextPlayer].turn_order,
         current_round |-> nextRound,
         status |-> nextStatus]

\* The room update nextTurn computes from the snapshots of the client.
NextTurnUpdate(r, tbl) ==
    LET sortedPlayers == OrderIds(tbl, DOMAIN tbl)
        found == FindFirst(sortedPlayers,
                           {i \in DOMAIN tbl : tbl[i].turn_order > r.current_drawer_index})
        wrap == found = NoPlayer
        nextPlayer == IF wrap THEN sortedPlayers[1] ELSE found
        nextRound == IF wrap THEN r.current_round + 1 ELSE r.current_round
        nextStatus == IF wrap /\ nextRound > r.max_rounds THEN "finished" ELSE "playing"
    IN  [current_drawer_index |-> tbl[nextPlayer].turn_order,
         current_round |-> nextRound,
         status |-> nextStatus]

\* The host presses Continue on the scoreboard.
NextTurn(c) ==
    /\ GameMounted(c)
    /\ ShowScoreboard(c)
    /\ IsHostView(c)
    /\ LET u == NextTurnUpdate(clientRoom[c], rawPlayers[c])
       IN  room' = [room EXCEPT
                      !.current_drawer_index = u.current_drawer_index,
                      !.current_round = u.current_round,
                      !.status = u.status,
                      !.current_word = NoWord,
                      !.turn_ends_at = NoTime]
    \* the clear broadcast that follows the update
    /\ QueueRoom(c)
    /\ Send(c, Payload(c, "clear", Undefined, NoPoint, NoImage))
    /\ UNCHANGED <<canvas, history, historyIndex, lastWordSelectedAt, subscribedAs,
                   tool, isDrawing, strokeBuffer>>
    /\ UNCHANGED <<players, present, clientRoom, rawPlayers, onlineIds, hostPc,
                   joinPc, starting, churn, guesses, now, hasGuessed, awardedRef,
                   pcVars, wordVars, nonCanvasVars>>

\* --------------------------------------------------------------- sendGuess
\* The guesser submits a text: correctness and points come from the snapshot,
\* the rank from a count of the correct guesses of the turn.
GuessSubmit(c, text) ==
    /\ GameMounted(c)
    /\ ~IsDrawer(c)
    /\ guessPc[c].stage = "idle"
    /\ Trim(Spell(text)) # <<>>
    /\ ~hasGuessed[c]
    /\ LET r == clientRoom[c]
           isCorrect == r.current_word # NoWord /\ IsFuzzyMatch(text, r.current_word)
           counted == isCorrect /\ r.word_selected_at # NoTime
           secondsElapsed == ClientNow(c) - r.word_selected_at
           guessRank == Cardinality(CorrectSince(r.word_selected_at)) + 1
           pointsToAward ==
               IF counted
               THEN ApplyModePointsMultiplier(
                        CalculateGuessPoints(secondsElapsed, guessRank),
                        r.settings.game_mode)
               ELSE 0
       IN  guessPc' = [guessPc EXCEPT ![c] =
                         [stage |-> "insert", text |-> text,
                          is_correct |-> isCorrect,
                          rank |-> IF counted THEN guessRank ELSE 0,
                          points |-> pointsToAward,
                          \* what the callback of this render will check
                          room |-> r, players |-> rawPlayers[c],
                          online |-> onlineIds[c]]]
    /\ UNCHANGED <<lobbyVars, guesses, now, hasGuessed, awardedRef, checkPc,
                   awardPc, resetPc>>
    /\ UNCHANGED wordVars
    /\ UNCHANGED uiVars

\* insert into guesses; the store stamps the row.
GuessInsert(c) ==
    /\ guessPc[c].stage = "insert"
    /\ now < MaxTime
    /\ guesses' = guesses \cup
                    {[player_id |-> c, guess_text |-> guessPc[c].text,
                      is_correct |-> guessPc[c].is_correct,
                      points_awarded |-> guessPc[c].points, guessed_at |-> now]}
    /\ now' = now + 1
    /\ hasGuessed' = [hasGuessed EXCEPT ![c] = @ \/ guessPc[c].is_correct]
    /\ guessPc' = [guessPc EXCEPT ![c] =
                     IF guessPc[c].is_correct
                     THEN [guessPc[c] EXCEPT !.stage = "increment"]
                     ELSE IdlePc]
    /\ UNCHANGED <<lobbyVars, awardedRef, checkPc, awardPc, resetPc>>
    /\ UNCHANGED wordVars
    /\ UNCHANGED uiVars

\* rpc increment_player_score for the guesser; the timer of the instant
\* turn-end check is set.
GuessIncrement(c) ==
    /\ guessPc[c].stage = "increment"
    /\ players' = AddScore(players, c, guessPc[c].points)
    /\ guessPc' = [guessPc EXCEPT ![c].stage = "settle"]
    /\ UNCHANGED <<room, present, clientRoom, rawPlayers, onlineIds, hostPc,
                   joinPc, starting, churn, guesses, now, hasGuessed, awardedRef,
                   checkPc, awardPc, resetPc>>
    /\ UNCHANGED wordVars
    /\ UNCHANGED uiVars

\* The timer fires: checkAndEndTurnIfAllGuessed as sendGuess captured it.
GuessSettledCheck(c) ==
    /\ guessPc[c].stage = "settle"
    /\ checkPc[c].stage = "idle"
    /\ checkPc' = [checkPc EXCEPT ![c] =
                     IF AllGuessed(c, guessPc[c].room, guessPc[c].players,
                                   guessPc[c].online)
                     THEN [stage |-> "update",
                           turn |-> guessPc[c].room.word_selected_at]
                     ELSE IdlePc]
    /\ guessPc' = [guessPc EXCEPT ![c] = IdlePc]
    /\ UNCHANGED <<lobbyVars, guesses, now, hasGuessed, awardedRef, awardPc,
                   resetPc>>
    /\ UNCHANGED wordVars
    /\ UNCHANGED uiVars

\* The form is submitted again while the first call of sendGuess still awaits
\* its count or its insert: the input still holds the text, and
\* hasGuessedCorrectly, which the first call sets after its insert, is unset.
Resubmit(c) ==
    /\ GameMounted(c)
    /\ ~IsDrawer(c)
    /\ guessPc[c].stage = "insert"
    /\ resubmitPc[c].stage = "idle"
    /\ Trim(Spell(guessPc[c].text)) # <<>>
    /\ ~hasGuessed[c]
    /\ LET r == clientRoom[c]
           text == guessPc[c].text
           isCorrect == r.current_word # NoWord /\ IsFuzzyMatch(text, r.current_word)
           counted == isCorrect /\ r.word_selected_at # NoTime
           secondsElapsed == ClientNow(c) - r.word_selected_at
           guessRank == Cardinality(CorrectSince(r.word_selected_at)) + 1
           pointsToAward ==
               IF counted
               THEN ApplyModePointsMultiplier(
                        CalculateGuessPoints(secondsElapsed, guessRank),
                        r.settings.game_mode)
               ELSE 0
       IN  resubmitPc' = [resubmitPc EXCEPT ![c] =
                            [stage |-> "insert", text |-> text,
                             is_correct |-> isCorrect,
                             rank |-> IF counted THEN guessRank ELSE 0,
                             points |-> pointsToAward,
                             room |-> r, players |-> rawPlayers[c],
                             online |-> onlineIds[c]]]
    /\ UNCHANGED <<lobbyVars, guesses, now, hasGuessed, awardedRef, pcVars, wordVars,
                   canvasVars, fillVars, kickVars, clockSkew, strokeStart,
                   workerVars>>

\* insert into guesses by the second call.
ResubmitInsert(c) ==
    /\ resubmitPc[c].stage = "insert"
    /\ now < MaxTime
    /\ guesses' = guesses \cup
                    {[player_id |-> c, guess_text |-> resubmitPc[c].text,
                      is_correct |-> resubmitPc[c].is_correct,
                      points_awarded |-> resubmitPc[c].points, guessed_at |-> now]}
    /\ now' = now + 1
    /\ hasGuessed' = [hasGuessed EXCEPT ![c] = @ \/ resubmitPc[c].is_correct]
    /\ resubmitPc' = [resubmitPc EXCEPT ![c] =
                        IF resubmitPc[c].is_correct
                        THEN [resubmitPc[c] EXCEPT !.stage = "increment"]
                        ELSE IdlePc]
    /\ UNCHANGED <<lobbyVars, awardedRef, pcVars, wordVars,
                   canvasVars, fillVars, kickVars, clockSkew, strokeStart,
                   workerVars>>

\* rpc increment_player_score by the second call.
ResubmitIncrement(c) ==
    /\ resubmitPc[c].stage = "increment"
    /\ players' = AddScore(players, c, resubmitPc[c].points)
    /\ resubmitPc' = [resubmitPc EXCEPT ![c].stage = "settle"]
    /\ UNCHANGED <<room, present, clientRoom, rawPlayers, onlineIds, hostPc,
                   joinPc, starting, churn, guesses, now, hasGuessed, awardedRef,
                   pcVars, wordVars,
                   canvasVars, fillVars, kickVars, clockSkew, strokeStart,
                   workerVars>>

\* The timer of the second call fires.
ResubmitSettledCheck(c) ==
    /\ resubmitPc[c].stage = "settle"
    /\ checkPc[c].stage = "idle"
    /\ checkPc' = [checkPc EXCEPT ![c] =
                     IF AllGuessed(c, resubmitPc[c].room, resubmitPc[c].players,
                                   resubmitPc[c].online)
                     THEN [stage |-> "update",
                           turn |-> resubmitPc[c].room.word_selected_at]
                     ELSE IdlePc]
    /\ resubmitPc' = [resubmitPc EXCEPT ![c] = IdlePc]
    /\ UNCHANGED <<lobbyVars, guesses, now, hasGuessed, awardedRef, awardPc,
                   guessPc, resetPc, wordVars,
                   canvasVars, fillVars, kickVars, clockSkew, strokeStart,
                   workerVars>>

\* --------------------------------------------------------------- resetGame
\* Game-over screen of a host: first the room goes back to the lobby ...
ResetRoom(c) ==
    /\ Joined(c)
    /\ c \in DOMAIN rawPlayers[c]
    /\ clientRoom[c].status = "finished"
    /\ IsHostView(c)
    /\ resetPc[c].stage = "idle"
    /\ room' = [room EXCEPT
                  !.status = "waiting", !.current_round = 1,
                  !.current_drawer_index = 0, !.current_word = NoWord,
                  !.turn_ends_at = NoTime, !.word_selected_at = NoTime]
    /\ resetPc' = [resetPc EXCEPT ![c] = [stage |-> "scores"]]
    /\ UNCHANGED <<players, present, clientRoom, rawPlayers, onlineIds, hostPc,
                   joinPc, starting, churn, guesses, now, hasGuessed, awardedRef,
                   checkPc, awardPc, guessPc>>
    /\ UNCHANGED wordVars
    /\ UNCHANGED uiVars

\* ... then every score of the room is set to 0.
ResetScores(c) ==
    /\ resetPc[c].stage = "scores"
    /\ players' = [i \in DOMAIN players |-> [players[i] EXCEPT !.score = 0]]
    /\ resetPc' = [resetPc EXCEPT ![c] = IdlePc]
    /\ UNCHANGED <<room, present, clientRoom, rawPlayers, onlineIds, hostPc,
                   joinPc, starting, churn, guesses, now, hasGuessed, awardedRef,
                   checkPc, awardPc, guessPc>>
    /\ UNCHANGED wordVars
    /\ UNCHANGED uiVars

\* ------------------------------------------------------- specifications
\* Lobby: browsers join and leave, the host starts the game.
NextLobby ==
    \E c \in Ids :
        \/ JoinFetchRoom(c)
        \/ JoinCount(c)
        \/ JoinInsert(c)
        \/ Leave(c)
        \/ ReloadPlayers(c)
        \/ RoomChanged(c)
        \/ StartGame(c)

SpecLobby == InitLobby /\ [][NextLobby]_vars

\* Host coordination: every browser has joined (turn_order 0, 1, 2 in join
\* order), the creator is host, and every client has received the rows and
\* the presence set.
HostPlayers == [i \in Ids |-> PlayerRow(i - 1, i = 1)]

InitHost ==
    /\ InitGameVars
    /\ room = InitRoom
    /\ players = HostPlayers
    /\ present = Ids
    /\ clientRoom = [c \in Ids |-> InitRoom]
    /\ rawPlayers = [c \in Ids |-> Snapshot(HostPlayers)]
    /\ onlineIds = [c \in Ids |-> Ids]
    /\ hostPc = [c \in Ids |-> IdleHost]
    /\ joinPc = [c \in Ids |-> [stage |-> "joined", count |-> 0]]
    /\ starting = [c \in Ids |-> FALSE]
    /\ churn = 0

NextHostCoord ==
    \E c \in Ids :
        \/ Leave(c)
        \/ Disconnect(c)
        \/ Reconnect(c)
        \/ PresenceSync(c)
        \/ ReloadPlayers(c)
        \/ HostTransferStart(c)
        \/ HostPromoteWrite(c)
        \/ HostDemoteWrite(c)

SpecHost == InitHost /\ [][NextHostCoord]_vars

\* Host coordination with writes of the host transfer that the store rejects.
NextTransfer ==
    \/ NextHostCoord
    \/ \E c \in Ids :
        \/ HostPromoteFails(c)
        \/ HostDemoteFails(c)

SpecTransfer == InitHost /\ [][NextTransfer]_vars

\* A room in the lobby with the player rows tbl and the settings st it was
\* created with; every client of a row has received rows, room and presence.
InitTable(tbl, st) ==
    /\ InitGameVars
    /\ room = [InitRoom EXCEPT !.settings = st, !.max_rounds = st.rounds]
    /\ clientRoom = [c \in Ids |-> room]
    /\ players = tbl
    /\ present = DOMAIN tbl
    /\ rawPlayers = [c \in Ids |-> IF c \in DOMAIN tbl THEN Snapshot(tbl) ELSE NoRows]
    /\ onlineIds = [c \in Ids |-> IF c \in DOMAIN tbl THEN DOMAIN tbl ELSE {}]
    /\ hostPc = [c \in Ids |-> IdleHost]
    /\ joinPc = [c \in Ids |-> IF c \in DOMAIN tbl THEN [stage |-> "joined", count |-> 0]
                                ELSE [stage |-> "gone", count |-> 0]]
    /\ starting = [c \in Ids |-> FALSE]
    /\ churn = 0

RoomSettings(rounds, drawTime) ==
    [max_players |-> DefaultMaxPlayers, rounds |-> rounds, draw_time |-> drawTime,
     word_count |-> DefaultWordCount, game_mode |-> "classic"]

\* Rotation: the lobby holds two players after three browsers joined and one
\* of them left; the room was created with short turns and one or two rounds.
RotationTables ==
    { (1 :> PlayerRow(0, TRUE) @@ 2 :> PlayerRow(1, FALSE)),
      (1 :> PlayerRow(0, TRUE) @@ 3 :> PlayerRow(2, FALSE)),
      (2 :> PlayerRow(1, TRUE) @@ 3 :> PlayerRow(2, FALSE)) }

InitRotation ==
    \E tbl \in RotationTables, n \in {1, 2} :
        InitTable(tbl, RoomSettings(n, ShortDrawTime))

NextRotation ==
    \/ Tick
    \/ \E c \in Ids :
        \/ StartGame(c)
        \/ \E w \in Words : SelectWord(c, w)
        \/ NextTurn(c)
        \/ Leave(c)
        \/ ReloadPlayers(c)
        \/ RoomChanged(c)

SpecRotation == InitRotation /\ [][NextRotation]_vars

\* Stale host: a one-round game of two players in which sockets drop and the
\* host role moves while the game runs.
GameIds == {1, 2}

GamePlayers == [i \in GameIds |-> PlayerRow(i - 1, i = 1)]

InitStale == InitTable(GamePlayers, RoomSettings(1, ShortDrawTime))

NextStale ==
    \/ Tick
    \/ \E c \in Ids :
        \/ StartGame(c)
        \/ \E w \in Words : SelectWord(c, w)
        \/ NextTurn(c)
        \/ ResetRoom(c)
        \/ ResetScores(c)
        \/ Disconnect(c)
        \/ PresenceSync(c)
        \/ ReloadPlayers(c)
        \/ RoomChanged(c)
        \/ HostTransferStart(c)
        \/ HostPromoteWrite(c)
        \/ HostDemoteWrite(c)

SpecStale == InitStale /\ [][NextStale]_vars

\* Guessing: the last turn of a one-round game of two players is about to
\* begin.  The game was started at time 0, the first drawer picked a word at
\* once, nobody guessed it, and the host pressed Continue when the deadline
\* had passed.
InitGame ==
    /\ room = [InitRoom EXCEPT
                 !.settings = RoomSettings(1, DrawTime), !.max_rounds = 1,
                 !.status = "playing", !.current_drawer_index = 1,
                 !.word_selected_at = 0]
    /\ clientRoom = [c \in Ids |-> room]
    /\ now = DrawTime + 1
    /\ wordChoices = [c \in Ids |-> <<>>]
    /\ \E w \in Words : usedWords = [c \in Ids |-> IF c = 1 THEN {w} ELSE {}]
    /\ InitUiVars
    /\ guesses = {}
    /\ hasGuessed = [c \in Ids |-> FALSE]
    /\ awardedRef = [c \in Ids |-> IF c = 1 THEN 0 ELSE NoTime]
    /\ checkPc = [c \in Ids |-> IdlePc]
    /\ awardPc = [c \in Ids |-> IdlePc]
    /\ guessPc = [c \in Ids |-> IdlePc]
    /\ resetPc = [c \in Ids |-> IdlePc]
    /\ players = GamePlayers
    /\ present = GameIds
    /\ rawPlayers = [c \in Ids |-> IF c \in GameIds THEN Snapshot(GamePlayers) ELSE NoRows]
    /\ onlineIds = [c \in Ids |-> IF c \in GameIds THEN GameIds ELSE {}]
    /\ hostPc = [c \in Ids |-> IdleHost]
    /\ joinPc = [c \in Ids |-> IF c \in GameIds THEN [stage |-> "joined", count |-> 0]
                                ELSE [stage |-> "gone", count |-> 0]]
    /\ starting = [c \in Ids |-> FALSE]
    /\ churn = 0

NextGame ==
    \/ Tick
    \/ \E c \in Ids :
        \/ StartGame(c)
        \/ \E w \in Words : SelectWord(c, w)
        \/ \E t \in GuessTexts : GuessSubmit(c, t)
        \/ GuessInsert(c)
        \/ GuessIncrement(c)
        \/ GuessSettledCheck(c)
        \/ CheckQuery(c)
        \/ CheckUpdate(c)
        \/ AwardCount(c)
        \/ AwardIncrement(c)
        \/ NextTurn(c)
        \/ ResetRoom(c)
        \/ ResetScores(c)
        \/ RoomChanged(c)

SpecGame == InitGame /\ [][NextGame]_vars

\* Host coordination under the scheduling the runtime provides: a presence
\* change reaches every connected client, the refresh it triggers completes,
\* effects run after the render that enables them and store writes complete.
HostCoordStep ==
    \E c \in Ids :
        \/ PresenceSync(c)
        \/ ReloadPlayers(c)
        \/ HostTransferStart(c)
        \/ HostPromoteWrite(c)
        \/ HostDemoteWrite(c)

SpecHostFair == SpecHost /\ WF_vars(HostCoordStep)

\* Scoring: a turn of a game of 2 + k players is running, the creator draws,
\* the word was selected at time 0, and k other players guessed it in the
\* first second; the clock shows s seconds.
OtherIds(k) == 11 .. (10 + k)

PriorGuesses(k, mode) ==
    {[player_id |-> 10 + j, guess_text |-> "apple", is_correct |-> TRUE,
      points_awarded |-> ApplyModePointsMultiplier(CalculateGuessPoints(1, j), mode),
      guessed_at |-> 1] : j \in 1 .. k}

PointsPlayers(k, mode) ==
    [i \in GameIds \cup OtherIds(k) |->
        IF i \in GameIds THEN PlayerRow(i - 1, i = 1)
        ELSE [turn_order |-> i - 9, is_host |-> FALSE,
              score |-> ApplyModePointsMultiplier(
                            CalculateGuessPoints(1, i - 10), mode)]]

InitPoints ==
    \E s \in 0 .. MaxSeconds, k \in 0 .. MaxPrior,
       mode \in {"classic", "speed", "relay"} :
        /\ k > 0 => s >= 1
        /\ LET st == [max_players |-> DefaultMaxPlayers, rounds |-> DefaultRounds,
                      draw_time |-> DefaultDrawTime,
                      word_count |-> DefaultWordCount, game_mode |-> mode]
           IN  /\ room = [InitRoom EXCEPT
                            !.settings = st, !.status = "playing",
                            !.current_word = "apple", !.word_selected_at = 0,
                            !.turn_ends_at = GetEffectiveDrawTime(st)]
               /\ clientRoom = [c \in Ids |-> room]
        /\ now = s
        /\ wordChoices = [c \in Ids |-> <<>>]
        /\ usedWords = [c \in Ids |-> IF c = 1 THEN {"apple"} ELSE {}]
        /\ InitUiVars
        /\ guesses = PriorGuesses(k, mode)
        /\ players = PointsPlayers(k, mode)
        /\ present = DOMAIN players
        /\ rawPlayers = [c \in Ids |-> IF c \in GameIds THEN Snapshot(players) ELSE NoRows]
        /\ onlineIds = [c \in Ids |-> IF c \in GameIds THEN present ELSE {}]
        /\ hasGuessed = [c \in Ids |-> FALSE]
        /\ awardedRef = [c \in Ids |-> NoTime]
        /\ checkPc = [c \in Ids |-> IdlePc]
        /\ awardPc = [c \in Ids |-> IdlePc]
        /\ guessPc = [c \in Ids |-> IdlePc]
        /\ resetPc = [c \in Ids |-> IdlePc]
        /\ hostPc = [c \in Ids |-> IdleHost]
        /\ joinPc = [c \in Ids |-> IF c \in GameIds THEN [stage |-> "joined", count |-> 0]
                                    ELSE [stage |-> "gone", count |-> 0]]
        /\ starting = [c \in Ids |-> FALSE]
        /\ churn = 0

NextPoints == \E c \in Ids, t \in GuessTexts : GuessSubmit(c, t)

SpecPoints == InitPoints /\ [][NextPoints]_vars

\* Matching: a game of three players, the creator is host and draws, the
\* other two type guesses; the turn is in its drawing phase with one of the
\* words, or in its selecting phase with no word.
InitGuess ==
    \E w \in MatchWords \cup {NoWord} :
        /\ room = [InitRoom EXCEPT
                     !.settings = RoomSettings(1, DrawTime), !.max_rounds = 1,
                     !.status = "playing", !.current_word = w,
                     !.word_selected_at = MaxTime - MaxGuesses - 1,
                     !.turn_ends_at = IF w = NoWord THEN NoTime
                                      ELSE MaxTime - MaxGuesses - 1 + DrawTime]
        /\ clientRoom = [c \in Ids |-> room]
        /\ now = MaxTime - MaxGuesses
        /\ wordChoices = [c \in Ids |-> <<>>]
        /\ usedWords = [c \in Ids |-> IF c = 1 /\ w # NoWord THEN {w} ELSE {}]
        /\ InitUiVars
        /\ guesses = {}
        /\ hasGuessed = [c \in Ids |-> FALSE]
        /\ awardedRef = [c \in Ids |-> NoTime]
        /\ checkPc = [c \in Ids |-> IdlePc]
        /\ awardPc = [c \in Ids |-> IdlePc]
        /\ guessPc = [c \in Ids |-> IdlePc]
        /\ resetPc = [c \in Ids |-> IdlePc]
        /\ players = HostPlayers
        /\ present = Ids
        /\ rawPlayers = [c \in Ids |-> Snapshot(HostPlayers)]
        /\ onlineIds = [c \in Ids |-> Ids]
        /\ hostPc = [c \in Ids |-> IdleHost]
        /\ joinPc = [c \in Ids |-> [stage |-> "joined", count |-> 0]]
        /\ starting = [c \in Ids |-> FALSE]
        /\ churn = 0

NextGuess ==
    \E c \in Ids :
        \/ \E t \in MatchTexts : GuessSubmit(c, t)
        \/ GuessInsert(c)
        \/ GuessIncrement(c)
        \/ GuessSettledCheck(c)

SpecGuess == InitGuess /\ [][NextGuess]_vars

\* Turn end: a game of three players with host h in the given mode; the
\* creator's turn is running, the word was selected at time 0 and every client
\* has received the room row.
TurnPlayers(h) == [i \in Ids |-> PlayerRow(i - 1, i = h)]

InitTurn(h, mode) ==
    /\ LET st == [RoomSettings(1, LongDrawTime) EXCEPT !.game_mode = mode]
       IN  room = [InitRoom EXCEPT
                     !.settings = st, !.max_rounds = 1, !.status = "playing",
                     !.current_word = "apple", !.word_selected_at = 0,
                     !.turn_ends_at = GetEffectiveDrawTime(st)]
    /\ clientRoom = [c \in Ids |-> room]
    /\ now = 1
    /\ wordChoices = [c \in Ids |-> <<>>]
    /\ usedWords = [c \in Ids |-> IF c = 1 THEN {"apple"} ELSE {}]
    /\ InitUiVars
    /\ guesses = {}
    /\ hasGuessed = [c \in Ids |-> FALSE]
    /\ awardedRef = [c \in Ids |-> NoTime]
    /\ checkPc = [c \in Ids |-> IdlePc]
    /\ awardPc = [c \in Ids |-> IdlePc]
    /\ guessPc = [c \in Ids |-> IdlePc]
    /\ resetPc = [c \in Ids |-> IdlePc]
    /\ players = TurnPlayers(h)
    /\ present = Ids
    /\ rawPlayers = [c \in Ids |-> Snapshot(TurnPlayers(h))]
    /\ onlineIds = [c \in Ids |-> Ids]
    /\ hostPc = [c \in Ids |-> IdleHost]
    /\ joinPc = [c \in Ids |-> [stage |-> "joined", count |-> 0]]
    /\ starting = [c \in Ids |-> FALSE]
    /\ churn = 0

\* No store operation of a guess or a check is in flight and every connected
\* client has received the room row: round trips and change events take well
\* under a second.
Delivered ==
    \A c \in Ids :
        /\ checkPc[c].stage = "idle"
        /\ guessPc[c].stage = "idle"
        /\ c \in present => clientRoom[c] = room

\* A second passes between two worker ticks only if the check of no host
\* would end the turn: the worker ticks every 500 ms.
PollTick ==
    /\ Delivered
    /\ \A c \in Ids :
          ~(GameMounted(c) /\ AllGuessed(c, clientRoom[c], rawPlayers[c], onlineIds[c]))
    /\ Tick

\* The steps the runtime takes by itself: store operations complete, change
\* events arrive, timers and worker ticks fire.
PollStep ==
    \E c \in Ids :
        \/ GuessInsert(c)
        \/ GuessIncrement(c)
        \/ GuessSettledCheck(c)
        \/ CheckQuery(c)
        \/ CheckUpdate(c)
        \/ RoomChanged(c)

InitPoll == \E mode \in {"classic", "speed", "relay"} : InitTurn(1, mode)

NextPoll ==
    \/ PollTick
    \/ PollStep
    \/ \E c \in Ids, t \in GuessTexts : GuessSubmit(c, t)

SpecPollFair ==
    InitPoll /\ [][NextPoll]_vars /\ WF_vars(PollStep) /\ WF_vars(PollTick)

\* The same turn without the worker: only the check a correct guess triggers.
SettleTick == Delivered /\ Tick

SettleStep ==
    \E c \in Ids :
        \/ GuessInsert(c)
        \/ GuessIncrement(c)
        \/ GuessSettledCheck(c)
        \/ CheckUpdate(c)
        \/ RoomChanged(c)

InitSettle == \E h \in {1, 2}, mode \in {"classic", "speed"} : InitTurn(h, mode)

NextSettle ==
    \/ SettleTick
    \/ SettleStep
    \/ \E c \in Ids, t \in GuessTexts : GuessSubmit(c, t)

SpecSettleFair ==
    InitSettle /\ [][NextSettle]_vars /\ WF_vars(SettleStep) /\ WF_vars(SettleTick)

\* Reveal: a two-round game of two players, the creator is host and draws;
\* the word was selected at time 0, the other player guessed it in the first
\* second and was paid, and the turn runs towards its deadline while sockets
\* drop and the host role moves.
AwardGuess ==
    [player_id |-> 2, guess_text |-> "apple", is_correct |-> TRUE,
     points_awarded |-> CalculateGuessPoints(1, 1), guessed_at |-> 1]

InitAward ==
    /\ room = [InitRoom EXCEPT
                 !.settings = RoomSettings(2, DrawTime), !.max_rounds = 2,
                 !.status = "playing", !.current_word = "apple",
                 !.word_selected_at = 0, !.turn_ends_at = DrawTime]
    /\ clientRoom = [c \in Ids |-> room]
    /\ now = 2
    /\ wordChoices = [c \in Ids |-> <<>>]
    /\ usedWords = [c \in Ids |-> IF c = 1 THEN {"apple"} ELSE {}]
    /\ InitUiVars
    /\ guesses = {AwardGuess}
    /\ hasGuessed = [c \in Ids |-> c = 2]
    /\ awardedRef = [c \in Ids |-> NoTime]
    /\ checkPc = [c \in Ids |-> IdlePc]
    /\ awardPc = [c \in Ids |-> IdlePc]
    /\ guessPc = [c \in Ids |-> IdlePc]
    /\ resetPc = [c \in Ids |-> IdlePc]
    /\ players = AddScore(GamePlayers, 2, AwardGuess.points_awarded)
    /\ present = GameIds
    /\ rawPlayers = [c \in Ids |-> IF c \in GameIds THEN Snapshot(GamePlayers) ELSE NoRows]
    /\ onlineIds = [c \in Ids |-> IF c \in GameIds THEN GameIds ELSE {}]
    /\ hostPc = [c \in Ids |-> IdleHost]
    /\ joinPc = [c \in Ids |-> IF c \in GameIds THEN [stage |-> "joined", count |-> 0]
                                ELSE [stage |-> "gone", count |-> 0]]
    /\ starting = [c \in Ids |-> FALSE]
    /\ churn = 0

NextAward ==
    \/ Tick
    \/ \E c \in Ids :
        \/ AwardCount(c)
        \/ AwardIncrement(c)
        \/ NextTurn(c)
        \/ Disconnect(c)
        \/ Reconnect(c)
        \/ PresenceSync(c)
        \/ ReloadPlayers(c)
        \/ RoomChanged(c)
        \/ HostTransferStart(c)
        \/ HostPromoteWrite(c)
        \/ HostDemoteWrite(c)

SpecAward == InitAward /\ [][NextAward]_vars

\* Word selection: a one-round game of two players has just been started with
\* one of the word_count settings the lobby offers; the drawers are offered
\* candidates and select, by click or by the countdown.
InitWords ==
    \E n \in WORD_COUNT_OPTIONS :
        /\ InitTable(GamePlayers, [RoomSettings(1, ShortDrawTime) EXCEPT !.word_count = n])

\* The effects of a render have run: a client that is to select has its
\* candidates, any other client has none.
EffectsRun ==
    \A c \in DOMAIN players :
        IF ShowWordModal(c) THEN wordChoices[c] # <<>> ELSE wordChoices[c] = <<>>

\* React runs the effects of a render before it handles a click or a timer,
\* and the room row reaches the two browsers well within a second.
WordsStep ==
    /\ Delivered
    /\ EffectsRun
    /\ \/ Tick
       \/ \E c \in Ids :
           \/ StartGame(c)
           \/ ChooseWord(c)
           \/ AutoSelectWord(c)
           \/ NextTurn(c)

NextWords ==
    \/ WordsStep
    \/ \E c \in Ids :
        \/ WordSelectionEffect(c)
        \/ RoomChanged(c)

SpecWords == InitWords /\ [][NextWords]_vars

\* Turn length: a room of two players was created with one of the game modes
\* and with a draw time that is one the lobby offers or a short one whose
\* turn the clock runs through; the host starts the game and the first drawer
\* selects the word.
SelectDrawTimes == DRAW_TIME_OPTIONS \cup (RelayPasses .. MaxDrawTime)

InitSelect ==
    \E t \in SelectDrawTimes, mode \in GAME_MODES :
        InitTable(GamePlayers,
                  [RoomSettings(1, t) EXCEPT !.game_mode = mode])

NextSelect ==
    \/ Tick
    \/ \E c \in Ids :
        \/ StartGame(c)
        \/ \E w \in Words : SelectWord(c, w)
        \/ RoomChanged(c)

SpecSelect == InitSelect /\ [][NextSelect]_vars

\* Relay rotation: a game of three players in one of the modes and with one
\* of the draw times; the rows hold the turn orders 0, 1, 2 or, after a fourth
\* browser joined and left, three of 0 .. 3.  Some player's turn has begun:
\* either the word has not been selected yet or it was selected at RelayStart.
\* The turn timer runs.
RelayTables ==
    {[i \in Ids |-> PlayerRow(o[i], i = 1)] :
        o \in {<<0, 1, 2>>, <<0, 1, 3>>, <<0, 2, 3>>, <<1, 2, 3>>}}

InitRelay ==
    \E tbl \in RelayTables, d \in Ids, t \in SelectDrawTimes,
       mode \in GAME_MODES, selected \in BOOLEAN :
        /\ LET st == [RoomSettings(1, t) EXCEPT !.game_mode = mode]
           IN  room = [InitRoom EXCEPT
                         !.settings = st, !.max_rounds = 1, !.status = "playing",
                         !.current_drawer_index = tbl[d].turn_order,
                         !.current_word = IF selected THEN "apple" ELSE NoWord,
                         !.word_selected_at = IF selected THEN RelayStart ELSE NoTime,
                         !.turn_ends_at =
                             IF selected THEN RelayStart + GetEffectiveDrawTime(st)
                             ELSE NoTime]
        /\ clientRoom = [c \in Ids |-> room]
        /\ now = 0
        /\ InitWordVars
        /\ InitUiVars
        /\ guesses = {}
        /\ hasGuessed = [c \in Ids |-> FALSE]
        /\ awardedRef = [c \in Ids |-> NoTime]
        /\ checkPc = [c \in Ids |-> IdlePc]
        /\ awardPc = [c \in Ids |-> IdlePc]
        /\ guessPc = [c \in Ids |-> IdlePc]
        /\ resetPc = [c \in Ids |-> IdlePc]
        /\ players = tbl
        /\ present = Ids
        /\ rawPlayers = [c \in Ids |-> Snapshot(tbl)]
        /\ onlineIds = [c \in Ids |-> Ids]
        /\ hostPc = [c \in Ids |-> IdleHost]
        /\ joinPc = [c \in Ids |-> [stage |-> "joined", count |-> 0]]
        /\ starting = [c \in Ids |-> FALSE]
        /\ churn = 0

\* The one-second interval of the turn timer fires: GameView renders again
\* and resolves the relay segment and the drawer for the new clock value.
TimerInterval ==
    /\ room.turn_ends_at # NoTime
    /\ now <= room.turn_ends_at
    /\ now < MaxElapsed
    /\ now' = now + 1
    /\ UNCHANGED <<lobbyVars, guesses, hasGuessed, awardedRef, pcVars, wordVars,
                   uiVars>>

NextRelay == TimerInterval

SpecRelay == InitRelay /\ [][NextRelay]_vars

\* Turns of drawing: a one-round game of two players with short turns.  The
\* host starts it; each drawer selects the word and draws one stroke with the
\* pen, not lifting it, while the other player receives the broadcasts; the
\* host moves on when the deadline has passed.
InitCanvas == InitTable(GamePlayers, RoomSettings(1, ShortDrawTime))

\* A client writes the room row only after it has received the latest one
\* and the effects of that render have run: the writes of a client with an
\* old row are not the subject here.
RoomWrite(c) ==
    /\ clientRoom[c] = room
    /\ ~EffectsPending(c)
    /\ \/ StartGame(c)
       \/ \E w \in Words : SelectWord(c, w)
       \/ NextTurn(c)

NextCanvas ==
    \/ Tick
    \/ \E c \in Ids :
        \/ RoomWrite(c)
        \/ RoomChanged(c)
        \/ CanvasEffect(c)
        \/ \E point \in Points : HandleStart(c, point)
        \/ \E point \in Points, throttled \in BOOLEAN : HandleMove(c, point, throttled)
        \/ ReceiveBroadcast(c)

SpecCanvas == InitCanvas /\ [][NextCanvas]_vars

\* Tools of the drawer: the first turn of a game of two players is running,
\* the word was selected at time 0 and both browsers have just received the
\* room row.  The drawer uses pen, eraser, fill, undo, redo and the bin; the
\* other player receives the broadcasts.
TurnRunningAt(t) ==
    /\ InitWordVars
    /\ LET st == RoomSettings(1, DrawTime)
       IN  room = [InitRoom EXCEPT
                     !.settings = st, !.max_rounds = 1, !.status = "playing",
                     !.current_word = "apple", !.word_selected_at = t,
                     !.turn_ends_at = t + GetEffectiveDrawTime(st)]
    /\ clientRoom = [c \in Ids |-> room]
    /\ now = t + 1
    /\ guesses = {}
    /\ hasGuessed = [c \in Ids |-> FALSE]
    /\ awardedRef = [c \in Ids |-> NoTime]
    /\ checkPc = [c \in Ids |-> IdlePc]
    /\ awardPc = [c \in Ids |-> IdlePc]
    /\ guessPc = [c \in Ids |-> IdlePc]
    /\ resetPc = [c \in Ids |-> IdlePc]
    /\ players = GamePlayers
    /\ present = GameIds
    /\ rawPlayers = [c \in Ids |-> IF c \in GameIds THEN Snapshot(GamePlayers) ELSE NoRows]
    /\ onlineIds = [c \in Ids |-> IF c \in GameIds THEN GameIds ELSE {}]
    /\ hostPc = [c \in Ids |-> IdleHost]
    /\ joinPc = [c \in Ids |-> IF c \in GameIds THEN [stage |-> "joined", count |-> 0]
                                ELSE [stage |-> "gone", count |-> 0]]
    /\ starting = [c \in Ids |-> FALSE]
    /\ churn = 0

TurnRunning == TurnRunningAt(0)

InitTools == InitUiVars /\ TurnRunning

\* The history of c holds fewer than MaxSaves snapshots.
HistoryRoom(c) == Len(history[c]) < MaxSaves

NextTools ==
    \E c \in Ids :
        \/ CanvasEffect(c)
        \/ \E t \in {"pen", "eraser", "fill"} : SetTool(c, t)
        \/ \E point \in Points : HandleStart(c, point)
        \/ \E point \in Points, throttled \in BOOLEAN : HandleMove(c, point, throttled)
        \/ HistoryRoom(c) /\ HandleEnd(c)
        \/ Undo(c)
        \/ Redo(c)
        \/ HistoryRoom(c) /\ ClearCanvas(c)
        \/ ReceiveBroadcast(c)

SpecTools == InitTools /\ [][NextTools]_vars

\* Flood fill: bitmaps of up to FillWidth by FillHeight pixels in two colours;
\* floodFill is called at a pixel, or beside the bitmap, with a colour, again
\* and again on the bitmap the call before left.
Bitmaps ==
    UNION {{[width |-> w, height |-> h, data |-> d] :
              d \in [0 .. w * h - 1 -> {Paper, Black}]} :
           w \in 1 .. FillWidth, h \in 1 .. FillHeight}

InitFill ==
    /\ InitCanvasVars
    /\ InitKickVars
    /\ InitClocks
    /\ InitWorkers
    /\ InitResubmit
    /\ TurnRunning
    /\ \E bm \in Bitmaps :
         filled = [called |-> FALSE, before |-> bm, x |-> 0, y |-> 0,
                   fillColor |-> Paper, after |-> bm, iterations |-> 0]

CallFloodFill(px, py, fillColor) ==
    /\ LET r == FloodFill(filled.after, px, py, fillColor)
       IN  filled' = [called |-> TRUE, before |-> filled.after, x |-> px, y |-> py,
                      fillColor |-> fillColor, after |-> r.bitmap,
                      iterations |-> r.iterations]
    /\ UNCHANGED <<lobbyVars, guesses, now, hasGuessed, awardedRef, pcVars, wordVars,
                   canvasVars, kickVars, restVars>>

NextFill ==
    \E px \in -1 .. filled.after.width, py \in -1 .. filled.after.height,
       fillColor \in {Paper, Black} :
        CallFloodFill(px, py, fillColor)

SpecFill == InitFill /\ [][NextFill]_vars

\* Kicking: three players in the lobby, the creator is host; players are
\* kicked, the rows reach the clients, and the host may start the game while
\* a kick is on its way.
NextKick ==
    \E c \in Ids :
        \/ \E target \in Ids : KickPlayer(c, target)
        \/ \E target \in Ids, outcome \in {"ok", "error", "thrown"}, deleted \in BOOLEAN :
              KickRpc(c, target, outcome, deleted)
        \/ \E target \in Ids : KickReturned(c, target)
        \/ ReloadPlayers(c)
        \/ StartGame(c)
        \/ RoomChanged(c)

SpecKick == InitHost /\ [][NextKick]_vars

\* Clocks: the game of two players with the first turn running; the clock
\* of a browser is up to MaxSkew seconds behind or ahead of the clock of the
\* store, which stamps the guesses.  Guesses are sent, the turn ends, the
\* next drawer selects a word.
Skews == {-MaxSkew, 0, MaxSkew}

InitSkew ==
    /\ InitCanvasVars /\ InitFillVars /\ InitKickVars /\ InitWorkers
    /\ InitResubmit
    /\ \E skew \in [GameIds -> Skews] :
         clockSkew = [c \in Ids |-> IF c \in GameIds THEN skew[c] ELSE 0]
    /\ TurnRunningAt(MaxSkew)

NextSkew ==
    \/ Tick
    \/ \E c \in Ids :
        \/ \E t \in {"apple"} : GuessSubmit(c, t)
        \/ GuessInsert(c)
        \/ GuessIncrement(c)
        \/ GuessSettledCheck(c)
        \/ CheckQuery(c)
        \/ CheckUpdate(c)
        \/ AwardCount(c)
        \/ AwardIncrement(c)
        \/ clientRoom[c] = room /\ NextTurn(c)
        \/ clientRoom[c] = room /\ SelectWord(c, "apple")
        \/ RoomChanged(c)

SpecSkew == InitSkew /\ [][NextSkew]_vars

\* Undo history over turns: the game of SpecCanvas, in which the drawer also
\* lifts the pen, clears, undoes and redoes.  The drawer acts when every
\* player has received what was sent before, and inks the canvas before the
\* first snapshot only.  Snapshots are saved without a limit of the model
\* while they and the canvas are blank; a history with ink is kept below
\* MaxSaves.
LongHistoryRoom(c) ==
    \/ HistoryRoom(c)
    \/ /\ canvas[c] = BlankCanvas
       /\ \A i \in DOMAIN history[c] : history[c][i] = BlankCanvas

\* Every player has received the room row and the broadcasts sent so far,
\* and the effects of its canvas have run.
BroadcastsReceived ==
    \A d \in GameIds :
        /\ drawQueue[d] = <<>>
        /\ clientRoom[d] = room
        /\ ~EffectsPending(d)

NextHistory ==
    \/ Tick
    \/ \E c \in Ids :
        \/ RoomWrite(c)
        \/ RoomChanged(c)
        \/ CanvasEffect(c)
        \/ BroadcastsReceived /\ \E point \in Points : HandleStart(c, point)
        \/ BroadcastsReceived /\ history[c] = <<>> /\ \E point \in Points : HandleMove(c, point, FALSE)
        \/ BroadcastsReceived /\ LongHistoryRoom(c) /\ HandleEnd(c)
        \/ BroadcastsReceived /\ Undo(c)
        \/ BroadcastsReceived /\ Redo(c)
        \/ BroadcastsReceived /\ LongHistoryRoom(c) /\ ClearCanvas(c)
        \/ ReceiveBroadcast(c)

SpecHistory == InitCanvas /\ [][NextHistory]_vars

\* -------------------------------------------------------- host game loop
\* The page of c renders GameView.
GameViewShown(c) ==
    /\ Joined(c)
    /\ clientRoom[c].status # "waiting"
    /\ c \in DOMAIN rawPlayers[c] \/ rawPlayers[c] = NoRows

\* isHost of GameView: currentPlayer?.is_host
GameIsHost(c) == c \in DOMAIN rawPlayers[c] /\ rawPlayers[c][c].is_host

\* The dependencies of the host game loop effect in the render of c.
LoopDeps(c) ==
    [isHost |-> GameIsHost(c), status |-> clientRoom[c].status,
     turn_ends_at |-> clientRoom[c].turn_ends_at,
     current_drawer_index |-> clientRoom[c].current_drawer_index,
     current_round |-> clientRoom[c].current_round, players |-> rawPlayers[c],
     current_word |-> clientRoom[c].current_word,
     word_selected_at |-> clientRoom[c].word_selected_at]

\* The effect or its cleanup has to run: GameView was mounted or rendered
\* with other dependencies, or it was unmounted.
LoopPending(c) ==
    IF GameViewShown(c)
    THEN ~hostLoop[c].ran \/ hostLoop[c].deps # LoopDeps(c)
    ELSE hostLoop[c].ran

\* The effect creates a worker in this render.
LoopWanted(c) ==
    /\ GameViewShown(c)
    /\ GameIsHost(c)
    /\ clientRoom[c].status = "playing"

\* The host game loop effect whose cleanup leaves the worker running.
HostLoopEffect_NoCleanup(c) ==
    /\ LoopPending(c)
    /\ hostLoop' = [hostLoop EXCEPT ![c] =
                       [alive |-> IF LoopWanted(c) THEN @.alive + 1 ELSE @.alive,
                        ran |-> GameViewShown(c),
                        deps |-> IF GameViewShown(c) THEN LoopDeps(c) ELSE NoDeps]]
    /\ UNCHANGED <<lobbyVars, guesses, now, hasGuessed, awardedRef, pcVars, wordVars,
                   canvasVars, fillVars, kickVars, clockSkew, resubmitPc,
                   strokeStart, workerJs>>

\* The host game loop effect after a render, or its cleanup after the
\* unmount: the cleanup of the run before posts 'stop' to its worker and
\* terminates it; then a host whose room is playing creates a worker and
\* posts 'start'.
HostLoopEffect(c) ==
    /\ LoopPending(c)
    /\ LET cleaned == IF hostLoop[c].alive > 0 THEN hostLoop[c].alive - 1 ELSE 0
       IN  hostLoop' = [hostLoop EXCEPT ![c] =
                          [alive |-> IF LoopWanted(c) THEN cleaned + 1 ELSE cleaned,
                           ran |-> GameViewShown(c),
                           deps |-> IF GameViewShown(c) THEN LoopDeps(c) ELSE NoDeps]]
    /\ UNCHANGED <<lobbyVars, guesses, now, hasGuessed, awardedRef, pcVars, wordVars,
                   canvasVars, fillVars, kickVars, clockSkew, resubmitPc,
                   strokeStart, workerJs>>

\* ------------------------------------------------------------- worker.js
\* The page posts a message to the worker.
PostMessage(data) ==
    /\ Len(workerJs.inbox) < MaxInbox
    /\ workerJs' = [workerJs EXCEPT !.inbox = Append(@, data)]
    /\ UNCHANGED <<lobbyVars, guesses, now, hasGuessed, awardedRef, pcVars, wordVars,
                   canvasVars, fillVars, kickVars, clockSkew, resubmitPc,
                   strokeStart, hostLoop>>

\* self.onmessage without the test of intervalId before setInterval
OnMessage_StartsAlways ==
    /\ workerJs.inbox # <<>>
    /\ LET data == Head(workerJs.inbox)
           w == [workerJs EXCEPT !.inbox = Tail(@)]
       IN  IF data = "start"
           THEN /\ w.created < MaxIntervals
                /\ workerJs' = [w EXCEPT !.intervalId = w.created + 1,
                                         !.intervals = @ \cup {w.created + 1},
                                         !.created = @ + 1,
                                         !.started = TRUE, !.ticked = FALSE]
           ELSE IF data = "stop"
           THEN workerJs' = [w EXCEPT !.intervalId = 0,
                                      !.intervals = @ \ {w.intervalId},
                                      !.started = FALSE, !.ticked = FALSE]
           ELSE workerJs' = w
    /\ UNCHANGED <<lobbyVars, guesses, now, hasGuessed, awardedRef, pcVars, wordVars,
                   canvasVars, fillVars, kickVars, clockSkew, resubmitPc,
                   strokeStart, hostLoop>>

\* self.onmessage: the worker handles the next message.  setInterval returns
\* a new positive id each time.
OnMessage ==
    /\ workerJs.inbox # <<>>
    /\ LET data == Head(workerJs.inbox)
           w == [workerJs EXCEPT !.inbox = Tail(@)]
       IN  IF data = "start"
           THEN IF w.intervalId = 0
                THEN /\ w.created < MaxIntervals
                     /\ workerJs' = [w EXCEPT !.intervalId = w.created + 1,
                                              !.intervals = @ \cup {w.created + 1},
                                              !.created = @ + 1,
                                              !.started = TRUE, !.ticked = FALSE]
                ELSE workerJs' = [w EXCEPT !.started = TRUE, !.ticked = FALSE]
           ELSE IF data = "stop"
           THEN IF w.intervalId # 0
                THEN workerJs' = [w EXCEPT !.intervalId = 0,
                                           !.intervals = @ \ {w.intervalId},
                                           !.started = FALSE, !.ticked = FALSE]
                ELSE workerJs' = [w EXCEPT !.started = FALSE, !.ticked = FALSE]
           ELSE workerJs' = w
    /\ UNCHANGED <<lobbyVars, guesses, now, hasGuessed, awardedRef, pcVars, wordVars,
                   canvasVars, fillVars, kickVars, clockSkew, resubmitPc,
                   strokeStart, hostLoop>>

\* An active interval fires: the callback posts 'tick'.
IntervalFires ==
    /\ workerJs.intervals # {}
    /\ workerJs' = [workerJs EXCEPT !.ticked = TRUE]
    /\ UNCHANGED <<lobbyVars, guesses, now, hasGuessed, awardedRef, pcVars, wordVars,
                   canvasVars, fillVars, kickVars, clockSkew, resubmitPc,
                   strokeStart, hostLoop>>

\* The timer worker: the page posts 'start', 'stop' and other messages in
\* any order; the worker handles them one by one and its intervals fire.
InitWorker == InitLobby

NextWorker ==
    \/ \E data \in {"start", "stop", "tick"} : PostMessage(data)
    \/ OnMessage
    \/ IntervalFires

SpecWorker == InitWorker /\ [][NextWorker]_vars

\* Delayed writes: the first turn of a one-round game of two players is
\* running; guesses are sent, the host's checks and its Continue run on the
\* room row that client holds, and a store operation completes at any time;
\* a drawer selects the word on the latest room row.
NextDelayed ==
    \/ Tick
    \/ \E c \in Ids :
        \/ GuessSubmit(c, "apple")
        \/ GuessInsert(c)
        \/ GuessIncrement(c)
        \/ GuessSettledCheck(c)
        \/ CheckQuery(c)
        \/ CheckUpdate(c)
        \/ NextTurn(c)
        \/ clientRoom[c] = room /\ SelectWord(c, "apple")
        \/ RoomChanged(c)

SpecDelayed == InitTools /\ [][NextDelayed]_vars

\* The host game loop over a game: the game of SpecStale with players that
\* leave; the effects of a client run before its next event.
LoopStep(c) ==
    /\ ~LoopPending(c)
    /\ \/ StartGame(c)
       \/ \E w \in Words : SelectWord(c, w)
       \/ NextTurn(c)
       \/ Leave(c)
       \/ PresenceSync(c)
       \/ ReloadPlayers(c)
       \/ RoomChanged(c)
       \/ HostTransferStart(c)
       \/ HostPromoteWrite(c)
       \/ HostDemoteWrite(c)

NextLoop ==
    \/ Tick
    \/ \E c \in Ids :
        \/ LoopStep(c)
        \/ HostLoopEffect(c)

SpecLoop == InitStale /\ [][NextLoop]_vars

\* ================================================================ claims

\* Every client still in the room has received the latest rows and presence
\* set, no host-transfer write is in flight and no client is about to start one.
Settled ==
    \A c \in Ids :
        /\ hostPc[c].stage = "idle"
        /\ Joined(c) => /\ rawPlayers[c] = Snapshot(players)
                        /\ onlineIds[c] = present
                        /\ ~(hostPc[c].fresh /\ ShouldPromoteSelf(c))

OnlineHosts == {i \in DOMAIN players \cap present : players[i].is_host}

\* C1: in every reachable state of the room row current_word is non-null if
\* and only if turn_ends_at is non-null.
C1_WordIffDeadline ==
    (room.current_word # NoWord) <=> (room.turn_ends_at # NoTime)

\* C2: in every settled state at most one player in the presence set has
\* is_host = true.
C2_AtMostOneOnlineHost == Settled => Cardinality(OnlineHosts) <= 1

\* No player flagged host is in the presence set, and some player is.
HostAbsent ==
    /\ DOMAIN players \cap present # {}
    /\ \A i \in DOMAIN players : players[i].is_host => i \notin present

\* The present player with the lowest turn_order is flagged host.
LowestPresentIsHost ==
    \A i \in DOMAIN players \cap present :
        (\A j \in DOMAIN players \cap present :
            players[i].turn_order <= players[j].turn_order) => players[i].is_host

SomePresentHost == \E i \in DOMAIN players \cap present : players[i].is_host

NobodyPresent == DOMAIN players \cap present = {}

C4_TurnOrderUnique ==
    \A i, j \in DOMAIN players :
        i # j => players[i].turn_order # players[j].turn_order

SetMin(S) == CHOOSE x \in S : \A y \in S : x <= y

TurnOrders(tbl) == {tbl[i].turn_order : i \in DOMAIN tbl}

LaterOrders(r, tbl) == {o \in TurnOrders(tbl) : o > r.current_drawer_index}

\* C5: nextTurn, computed from the room and player snapshots of its caller,
\* sets the drawer to the smallest turn_order strictly greater than
\* current_drawer_index and leaves current_round as it is; if there is no such
\* turn_order it sets the drawer to the smallest turn_order of all players and
\* current_round to one more.
C5_NextDrawerAndRound ==
    [][\A c \in Ids :
          NextTurn(c) =>
             LET r == clientRoom[c]
                 later == LaterOrders(r, rawPlayers[c])
             IN  IF later # {}
                 THEN /\ room'.current_drawer_index = SetMin(later)
                      /\ room'.current_round = r.current_round
                 ELSE /\ room'.current_drawer_index = SetMin(TurnOrders(rawPlayers[c]))
                      /\ room'.current_round = r.current_round + 1]_vars

\* The drawer moved from ordinal 0 to ordinal 2 over the gap left by a player
\* who went away before the game.
C5_Witness ==
    /\ room.status = "playing"
    /\ TurnOrders(players) = {0, 2}
    /\ room.current_drawer_index = 2
    /\ room.current_round = 1
    /\ room.word_selected_at # NoTime

\* C6: the status becomes finished exactly by a nextTurn whose caller sees no
\* turn_order after current_drawer_index while current_round equals
\* max_rounds, and while the status is playing current_round is at most
\* max_rounds.
C6_FinishedExactlyOnLastWrap ==
    /\ [](room.status = "playing" => room.current_round <= room.max_rounds)
    /\ [][(room.status # "finished" /\ room'.status = "finished") =>
             \E c \in Ids :
                 /\ NextTurn(c)
                 /\ LaterOrders(clientRoom[c], rawPlayers[c]) = {}
                 /\ clientRoom[c].current_round = clientRoom[c].max_rounds]_vars
    /\ [][\A d \in Ids :
             (NextTurn(d) /\ room'.status # "finished") =>
                 \/ LaterOrders(clientRoom[d], rawPlayers[d]) # {}
                 \/ clientRoom[d].current_round < clientRoom[d].max_rounds]_vars

\* A two-round game wrapped once without finishing and finished on the
\* second wrap.
C6_Witness ==
    /\ room.status = "finished"
    /\ room.max_rounds = 2
    /\ room.current_round = 3

\* C7: the status of the room changes only from waiting to playing by
\* startGame, from playing to finished by nextTurn and from finished to waiting
\* by resetGame.
C7_StatusEdges ==
    [][room'.status # room.status =>
          \/ /\ room.status = "waiting" /\ room'.status = "playing"
             /\ \E c \in Ids : StartGame(c)
          \/ /\ room.status = "playing" /\ room'.status = "finished"
             /\ \E c \in Ids : NextTurn(c)
          \/ /\ room.status = "finished" /\ room'.status = "waiting"
             /\ \E c \in Ids : ResetRoom(c)]_vars

\* C8: the room goes from waiting to playing only by startGame of a client
\* whose own row is flagged host, and only when the room has at least two
\* player rows at the time of the write.
C8_StartNeedsHostAndTwoPlayers ==
    [][(room.status = "waiting" /\ room'.status = "playing") =>
         \E c \in Ids :
            /\ StartGame(c)
            /\ c \in DOMAIN players
            /\ players[c].is_host
            /\ Cardinality(DOMAIN players) >= 2]_vars

\* C9: once resetGame has completed the room is waiting in round 1 with drawer
\* index 0, no word, no deadline and no selection time, and every player of the
\* room has score 0; no increment of the finished game changes that.
C9_ResetLeavesCleanRoom ==
    (room.status = "waiting" /\ \A c \in Ids : resetPc[c].stage = "idle") =>
        /\ room.current_round = 1
        /\ room.current_drawer_index = 0
        /\ room.current_word = NoWord
        /\ room.turn_ends_at = NoTime
        /\ room.word_selected_at = NoTime
        /\ \A i \in DOMAIN players : players[i].score = 0

\* C10: the points sendGuess computes for a correct guess s seconds after the
\* selection with rank r are floor(round(max(1000 - 12.5 s, 100) * m) * mode),
\* m = 1, 0.75, 0.5 for rank 1, 2, 3 and more, mode = 1.5 in speed mode and 1
\* otherwise: (0 s, rank 1) gives 1000, (40 s, rank 1) 500, (80 s, rank 1) 100
\* and (10 s, rank 2) 656 in classic mode.
C10_GuessPoints ==
    \A c \in Ids :
        (guessPc[c].stage = "insert" /\ guessPc[c].is_correct) =>
            LET s == now - clientRoom[c].word_selected_at
                rank == Cardinality(guesses) + 1
                mode == clientRoom[c].settings.game_mode
                pts == guessPc[c].points
                \* 8 * max(1000 - 12.5 s, 100) * m, an integer
                scaled == (IF 2000 - 25 * s >= 200 THEN 2000 - 25 * s ELSE 200)
                          * (IF rank = 1 THEN 4 ELSE IF rank = 2 THEN 3 ELSE 2)
                \* 2 * mode
                mode2 == IF mode = "speed" THEN 3 ELSE 2
            IN  /\ \E n \in 0 .. 1000 :
                      /\ 8 * n - 4 <= scaled /\ scaled < 8 * n + 4
                      /\ 2 * pts <= n * mode2 /\ n * mode2 < 2 * pts + 2
                /\ (mode = "classic" /\ s = 0 /\ rank = 1) => pts = 1000
                /\ (mode = "classic" /\ s = 40 /\ rank = 1) => pts = 500
                /\ (mode = "classic" /\ s = 80 /\ rank = 1) => pts = 100
                /\ (mode = "classic" /\ s = 10 /\ rank = 2) => pts = 656

\* The second correct guess of a classic turn, 10 seconds in, is worth 656.
C10_Witness ==
    /\ guessPc[2].stage = "insert"
    /\ guessPc[2].is_correct
    /\ room.settings.game_mode = "classic"
    /\ now = 10
    /\ Cardinality(guesses) = 1
    /\ guessPc[2].points = 656

\* A correct guess of client c that sendGuess has ranked and not yet finished.
RankedGuess(c) ==
    /\ guessPc[c].stage \in {"insert", "increment"}
    /\ guessPc[c].is_correct

\* C11: within one turn the ranks of the correct guesses are distinct as far
\* as the multiplier goes: no two correct guessers are both ranked first and
\* no two are both ranked second.
C11_RanksDistinct ==
    \A c, d \in Ids :
        (c # d /\ RankedGuess(c) /\ RankedGuess(d)
              /\ guessPc[c].room.word_selected_at = guessPc[d].room.word_selected_at)
            => ~(guessPc[c].rank = guessPc[d].rank /\ guessPc[c].rank \in {1, 2})

\* The letters of a text: its characters other than whitespace, lowercased.
Folded(text) == ToLowerCase(RemoveWhitespace(Spell(text)))

SameFolded(text, word) == word # NoWord /\ Folded(text) = Folded(word)

PresentGuessers ==
    {i \in DOMAIN players \cap present :
        players[i].turn_order # room.current_drawer_index}

\* The turn of the room row is in its drawing phase.
TurnActive ==
    /\ room.current_word # NoWord
    /\ room.word_selected_at # NoTime
    /\ room.turn_ends_at # NoTime
    /\ now < room.turn_ends_at

\* C13: the all-guessed check writes turn_ends_at = now, and nothing else,
\* only when the row of the executing client is flagged host, the turn is
\* active (word, selection time and deadline set, deadline not passed) and
\* every connected non-drawer player has a correct guess recorded since
\* word_selected_at.
C13_ForceEndOnlyWhenAllGuessed ==
    [][\A c \in Ids :
          CheckUpdate(c) =>
             /\ c \in DOMAIN players /\ players[c].is_host
             /\ TurnActive
             /\ \A i \in PresentGuessers :
                    \E g \in CorrectSince(room.word_selected_at) : g.player_id = i
             /\ room' = [room EXCEPT !.turn_ends_at = now]]_vars

\* The player who is drawing, by the store: the player whose turn it is, or in
\* relay mode the player the running segment has passed the drawing to.
DrawingOrdinal ==
    IF room.settings.game_mode = "relay"
    THEN (room.current_drawer_index
            + Min2((now - room.word_selected_at)
                       \div (GetEffectiveDrawTime(room.settings) \div 3), 2))
         % Cardinality(DOMAIN players)
    ELSE room.current_drawer_index

\* During the drawing phase every connected player other than the one who is
\* drawing has a correct guess of this turn, and a host is connected.
AllOthersSolved ==
    /\ TurnActive
    /\ room.status = "playing"
    /\ \E h \in DOMAIN players \cap present : players[h].is_host
    /\ \A i \in DOMAIN players \cap present :
          players[i].turn_order # DrawingOrdinal =>
             \E g \in CorrectSince(room.word_selected_at) : g.player_id = i

\* The turn has been ended before its original deadline.
EndedEarly ==
    /\ room.turn_ends_at # NoTime
    /\ room.turn_ends_at < room.word_selected_at + GetEffectiveDrawTime(room.settings)

\* C14: in every game mode, once every connected player other than the one
\* who is drawing has a correct guess of the turn and a host is online, the
\* polling check of the host eventually ends the turn before its original
\* deadline.
C14_EarlyEndLive == AllOthersSolved ~> EndedEarly

\* The connected players other than the one whose turn it is all have a
\* correct guess of this turn, the last of them just recorded.
GuessersComplete ==
    /\ TurnActive
    /\ room.status = "playing"
    /\ PresentGuessers # {}
    /\ \A i \in PresentGuessers :
          \E g \in CorrectSince(room.word_selected_at) : g.player_id = i

\* C15: once a correct guess has completed the set of solved connected
\* non-drawer players, the check that guess triggers ends the turn, no worker
\* tick being needed.
C15_PostGuessCheckEndsTurn == GuessersComplete ~> EndedEarly

\* C16: the drawer bonus of a turn is added to the drawer's score at most
\* once across all clients and amounts to 50 times the number of correct
\* guesses recorded since word_selected_at: the drawer of the turn, who
\* started it with score 0, has score 0 or exactly that amount.
C16_DrawerBonusOnce ==
    players[1].score \in {0, 50 * Cardinality(CorrectSince(room.word_selected_at))}

DifficultyRank(difficulty) ==
    CASE difficulty = "easy" -> 1
      [] difficulty = "medium" -> 2
      [] difficulty = "hard" -> 3

LowestDifficulty(choices, i) ==
    \A j \in 1 .. Len(choices) :
        DifficultyRank(choices[i].difficulty) <= DifficultyRank(choices[j].difficulty)

\* C17: when the selection countdown runs out, the word that becomes the
\* current word is the candidate of the lowest difficulty among those offered,
\* whatever the order of the candidates.
C17_AutoSelectsLowestDifficulty ==
    [][\A c \in Ids :
         AutoSelectWord(c) =>
             \E i \in 1 .. Len(wordChoices[c]) :
                 /\ wordChoices[c][i].word = room'.current_word
                 /\ LowestDifficulty(wordChoices[c], i)]_vars

\* C18: the number of candidates a drawer is offered is the word_count of the
\* room's settings, for each of the values 2, 3, 4 and 5.
C18_OfferedCountIsWordCount ==
    \A c \in Ids :
        wordChoices[c] # <<>> =>
            Len(wordChoices[c]) = clientRoom[c].settings.word_count

SelectedEarlier == UNION {usedWords[d] : d \in Ids}

PoolUsedUp(difficulty) ==
    \A w \in Range(PoolOf(difficulty)) : ToUpperCase(w) \in SelectedEarlier

\* C19: a word that was the current word earlier in the session, on whichever
\* client it was selected, is offered again only if every word of the pool of
\* its difficulty has been used.
C19_UsedWordNotOfferedAgain ==
    [][\A c \in Ids :
         (wordChoices[c] = <<>> /\ wordChoices'[c] # <<>>) =>
             \A i \in 1 .. Len(wordChoices'[c]) :
                 wordChoices'[c][i].word \in SelectedEarlier =>
                     PoolUsedUp(wordChoices'[c][i].difficulty)]_vars

\* floor(draw_time * timeMultiplier), the multiplier being 0.5 in speed mode
\* and 1.0 in classic and relay mode
EffectiveSeconds(settings) ==
    IF settings.game_mode = "speed" THEN settings.draw_time \div 2
    ELSE settings.draw_time

\* the number of seconds of the turn during which relay segment k is drawn
SegmentSeconds(k) ==
    Cardinality({t \in room.word_selected_at .. room.turn_ends_at - 1 :
                    GetRelayDrawerIndex(room.settings, room.word_selected_at,
                                        room.turn_ends_at, t) = k})

WordWritten ==
    /\ room.current_word # NoWord
    /\ room.word_selected_at # NoTime
    /\ room.turn_ends_at # NoTime
    /\ room.turn_ends_at - room.word_selected_at = EffectiveSeconds(room.settings)

CurrentRelaySegment ==
    GetRelayDrawerIndex(room.settings, room.word_selected_at, room.turn_ends_at, now)

RelayTurnRunning ==
    /\ room.settings.game_mode = "relay"
    /\ room.word_selected_at # NoTime
    /\ room.turn_ends_at # NoTime

ElapsedSeconds == IF now > room.word_selected_at THEN now - room.word_selected_at ELSE 0

SegmentFormula ==
    LET segmentLength == EffectiveSeconds(room.settings) \div 3
        q == ElapsedSeconds \div segmentLength
    IN  IF q < 2 THEN q ELSE 2

C21_SegmentValue ==
    /\ CurrentRelaySegment \in {0, 1, 2}
    /\ RelayTurnRunning => CurrentRelaySegment = SegmentFormula
    /\ ~RelayTurnRunning => CurrentRelaySegment = 0
    /\ (RelayTurnRunning /\ room.settings.draw_time = 90 /\ ElapsedSeconds = 45)
           => CurrentRelaySegment = 1

\* C21: the relay segment is min(floor(elapsed / floor(effective draw time /
\* 3)), 2): it is 0, 1 or 2, it never decreases while the clock advances
\* within a turn, it is 1 at 45 s of a 90 s turn, and it is 0 outside relay
\* mode or when word_selected_at or turn_ends_at is null.
C21_RelaySegment ==
    /\ []C21_SegmentValue
    /\ [][room' = room => CurrentRelaySegment' >= CurrentRelaySegment]_vars

\* a relay turn of 90 seconds is at its 45th second
C21_Witness ==
    /\ RelayTurnRunning
    /\ room.settings.draw_time = 90
    /\ ElapsedSeconds = 45
    /\ CurrentRelaySegment = 1

\* the player whose turn_order is current_drawer_index
BaseDrawer == FindFirst(OrderIds(players, DOMAIN players),
                        {i \in DOMAIN players : players[i].turn_order = room.current_drawer_index})

\* the drawer getRelayDrawerId resolves for segment k
SegmentDrawer(k) == GetRelayDrawerId(Snapshot(players), room.current_drawer_index, k)

\* C22: in relay mode the effective drawer is a player of the room, is the
\* base drawer at segment 0, and with three or more players the three
\* segments have three different drawers, whatever the turn orders are.
C22_RelayDrawers ==
    room.settings.game_mode = "relay" =>
        /\ \A c \in DOMAIN players : SafestDrawer(c) \in DOMAIN players
        /\ \A k \in 0 .. RelayPasses - 1 : SegmentDrawer(k) \in DOMAIN players
        /\ SegmentDrawer(0) = BaseDrawer
        /\ \A c \in DOMAIN players : CurrentRelaySegment = 0 => SafestDrawer(c) = BaseDrawer
        /\ Cardinality(DOMAIN players) >= 3 =>
               \A j, k \in 0 .. RelayPasses - 1 : j # k => SegmentDrawer(j) # SegmentDrawer(k)

\* the clients whose GameView resolves the drawer to themselves
SelfDrawers == {c \in DOMAIN players : GameMounted(c) /\ IsDrawer(c)}

\* an observer's handler changes its bitmap by the broadcast it receives
ObserverDraws(c) ==
    /\ ReceiveBroadcast(c)
    /\ subscribedAs[c] = Observer
    /\ canvas'[c] # canvas[c]

\* C23: at any time at most one client treats itself as the drawer, and a
\* broadcast changes the canvas of an observer only if it was sent by the
\* client that is the current drawer.
C23_OnlyDrawerMutates ==
    /\ [](Cardinality(SelfDrawers) <= 1)
    /\ [][\A c \in Ids :
            ObserverDraws(c) => Head(drawQueue[c]).from = BaseDrawer]_vars

\* The second turn of the game is running, drawer d and observer o have the
\* room row of this turn and have run their effects, every broadcast has
\* reached o and d has broadcast every point it has drawn.  The observer was
\* subscribed before the turn began: it pressed Continue to begin it.
TurnSettled(d, o) ==
    /\ room.status = "playing"
    /\ room.current_word # NoWord
    /\ room.current_drawer_index = 1
    /\ clientRoom[d] = room /\ clientRoom[o] = room
    /\ CanvasReady(d) /\ CanvasReady(o)
    /\ IsDrawer(d) /\ ~IsDrawer(o)
    /\ drawQueue[o] = <<>>
    /\ Len(strokeBuffer[d]) <= 1

\* C24: an observer subscribed for the whole turn has the canvas of the
\* drawer once all broadcasts of the turn are delivered, in whichever order
\* the room row and the first broadcasts reach it.
C24_ObserverCanvasIsDrawerCanvas ==
    \A d, o \in DOMAIN players :
        (d # o /\ TurnSettled(d, o)) => canvas[o] = canvas[d]

\* the broadcast an observer is about to handle was sent by undo or redo
RestoreArrives(c) ==
    /\ ReceiveBroadcast(c)
    /\ subscribedAs[c] = Observer
    /\ Head(drawQueue[c]).tool \in {"undo", "redo"}

\* C25: an observer that receives the broadcast of an undo or a redo has,
\* after handling it, the snapshot the drawer restored.
C25_RestoreReachesObserver ==
    [][\A c \in Ids :
         RestoreArrives(c) => canvas'[c] = Head(drawQueue[c]).imageData]_vars

\* The pixels of bm joined to pixel i by steps to the left, right, upper and
\* lower neighbour over pixels of the colour of i.
Neighbours(bm, i) ==
    {j \in DOMAIN bm.data :
        \/ j = i - bm.width
        \/ j = i + bm.width
        \/ j = i - 1 /\ i % bm.width # 0
        \/ j = i + 1 /\ j % bm.width # 0}

RECURSIVE Grow(_, _)
Grow(bm, region) ==
    LET more == {j \in DOMAIN bm.data :
                    /\ j \notin region
                    /\ \E i \in region : j \in Neighbours(bm, i) /\ bm.data[j] = bm.data[i]}
    IN  IF more = {} THEN region ELSE Grow(bm, region \cup more)

SeedRegion(bm, x, y) ==
    IF InBitmap(bm, x, y) THEN Grow(bm, {PixelIndex(bm, x, y)}) ELSE {}

Recolored == {i \in DOMAIN filled.before.data : filled.after.data[i] # filled.before.data[i]}

SeedHasFillColor ==
    /\ InBitmap(filled.before, filled.x, filled.y)
    /\ filled.before.data[PixelIndex(filled.before, filled.x, filled.y)] = filled.fillColor

\* C26: floodFill at a seed whose region has the fill colour already leaves
\* the bitmap as it was; the same fill applied again leaves what the first
\* left; the loop ends within width * height iterations and recolours only
\* pixels of the seed's colour that are 4-connected to the seed.
C26_FloodFillIdempotent ==
    filled.called =>
        /\ SeedHasFillColor => filled.after = filled.before
        /\ FloodFill(filled.after, filled.x, filled.y, filled.fillColor).bitmap = filled.after
        /\ filled.iterations <= filled.before.width * filled.before.height
        /\ Recolored \subseteq SeedRegion(filled.before, filled.x, filled.y)
        /\ \A i \in Recolored : filled.after.data[i] = filled.fillColor
        /\ filled.after.width = filled.before.width
        /\ filled.after.height = filled.before.height

\* a fill that recoloured a region of several pixels and left others alone
C26_Witness ==
    /\ filled.called
    /\ Cardinality(Recolored) >= 3
    /\ filled.iterations >= 2
    /\ \E i \in DOMAIN filled.before.data :
         i \notin Recolored /\ filled.before.data[i] # filled.fillColor

\* kickPlayer(t) of c resumes after a failed call, in the LobbyView that made it
KickFails(c, t) ==
    /\ KickReturned(c, t)
    /\ kickPc[c][t].stage \in {"error", "thrown"}
    /\ kickPc[c][t].mounted

KickSucceeds(c, t) ==
    /\ KickReturned(c, t)
    /\ kickPc[c][t].stage = "ok"
    /\ kickPc[c][t].mounted

\* the room row that replaces LobbyView by GameView reaches c
LobbyUnmounts(c) == RoomChanged(c) /\ clientRoom'[c].status # "waiting"

\* C27: when a kick fails the optimistic removal is rolled back: the target
\* is no longer in kickedPlayerIds and is displayed again (if the client
\* holds its row); when the kick succeeds the target stays hidden: only a
\* failed kick takes an id out of kickedPlayerIds while LobbyView is mounted.
C27_KickRollback ==
    [][\A c, t \in Ids :
         /\ KickFails(c, t) =>
               /\ t \notin kickedPlayerIds'[c]
               /\ t \in DOMAIN rawPlayers'[c] => t \in DisplayedPlayers(c)'
         /\ KickSucceeds(c, t) =>
               /\ t \in kickedPlayerIds'[c]
               /\ t \notin DisplayedPlayers(c)'
         /\ (t \in kickedPlayerIds[c] /\ t \notin kickedPlayerIds'[c]) =>
               KickFails(c, t) \/ LobbyUnmounts(c)]_vars

\* a kick has failed while another one had succeeded: the first target is
\* displayed again, the second one is hidden
C27_Witness ==
    \E c, t, u \in Ids :
        /\ kickPc[c][t].stage = "failed" /\ kickPc[c][t].mounted
        /\ t \in DisplayedPlayers(c)
        /\ kickPc[c][u].stage = "kicked" /\ kickPc[c][u].mounted
        /\ u \in kickedPlayerIds[c]
        /\ clientRoom[c].status = "waiting"

\* c and d hold the same player rows and the same presence set
SameSnapshot(c, d) ==
    /\ Joined(c) /\ Joined(d)
    /\ rawPlayers[c] = rawPlayers[d]
    /\ onlineIds[c] = onlineIds[d]

\* the rows c holds flag the first of the online players as host: the
\* promotion write of that player is visible to c
PromotionVisible(c) ==
    /\ NextHost(c) # NoPlayer
    /\ rawPlayers[c][NextHost(c)].is_host

\* C28: of the clients that hold one and the same snapshot of rows and
\* presence at most one satisfies the self-promotion predicate, and none
\* does once the snapshot shows the promotion of the first online player.
C28_OnePromoter ==
    \A c, d \in Ids :
        SameSnapshot(c, d) =>
            /\ (ShouldPromoteSelf(c) /\ ShouldPromoteSelf(d)) => c = d
            /\ PromotionVisible(c) => ~ShouldPromoteSelf(d)

\* the promotion was written while the old host is still flagged, and two
\* clients hold the rows that show it
C28_Witness ==
    \E c, d \in Ids :
        /\ c # d /\ SameSnapshot(c, d)
        /\ PromotionVisible(c)
        /\ CurrentHost(c) # NoPlayer /\ CurrentHost(c) # NextHost(c)

\* the rows whose host flag the step clears
FlagsCleared == {p \in DOMAIN players \cap DOMAIN players' :
                    players[p].is_host /\ ~players'[p].is_host}

\* C29: the block goes on to the demotion only when its promotion write has
\* set the client's own flag; a rejected promotion changes no row and ends
\* the block; a rejected demotion leaves the promotion as it is; and a flag
\* is cleared only by the demotion write of a block that is past its
\* promotion.
C29_PromoteBeforeDemote ==
    [][/\ \A c \in Ids :
            /\ (HostPromoteWrite(c) /\ hostPc'[c].stage = "demote") =>
                  c \in DOMAIN players' /\ players'[c].is_host
            /\ HostPromoteFails(c) => players' = players /\ hostPc'[c].stage = "idle"
            /\ HostDemoteFails(c) => players' = players
       /\ FlagsCleared # {} =>
            \E c \in Ids : HostDemoteWrite(c) /\ FlagsCleared = {hostPc[c].old}]_vars

\* a word is selected: the turn begins
WordSelected == \E c \in Ids, w \in Words : SelectWord(c, w)

\* C30: the three counts take the correct guesses stamped after
\* word_selected_at (CorrectSince), so they are scoped to the turn when no
\* correct guess that is in the log at the moment a word is selected, a guess
\* of an earlier turn, is stamped after the word_selected_at that is written,
\* whatever the clocks of the browsers show.
C30_GuessesScopedToTurn ==
    [][WordSelected => CorrectSince(room'.word_selected_at) = {}]_vars

\* C31: the undo history of every client holds at most MAX_HISTORY snapshots
\* and its index lies between -1 and the last position; the index is the
\* last position right after handleEnd or clearCanvas saved a snapshot; undo
\* and redo leave the snapshots alone, move the index by one and put the
\* snapshot at the new index on the canvas, so that a redo after an undo
\* shows the snapshot of before again; and the history is empty with index
\* -1 after the effect that saw a changed word_selected_at.
C31_HistoryWellFormed ==
    [][\A c \in Ids :
          /\ Len(history'[c]) <= MAX_HISTORY
          /\ -1 <= historyIndex'[c]
          /\ historyIndex'[c] <= Len(history'[c]) - 1
          /\ (HandleEnd(c) \/ ClearCanvas(c)) =>
                 historyIndex'[c] = Len(history'[c]) - 1
          /\ Undo(c) =>
                 /\ history'[c] = history[c]
                 /\ historyIndex'[c] = historyIndex[c] - 1
                 /\ canvas'[c] = history[c][historyIndex'[c] + 1]
          /\ Redo(c) =>
                 /\ history'[c] = history[c]
                 /\ historyIndex'[c] = historyIndex[c] + 1
                 /\ canvas'[c] = history[c][historyIndex'[c] + 1]
          /\ (CanvasEffect(c)
               /\ lastWordSelectedAt[c] # clientRoom[c].word_selected_at) =>
                 /\ history'[c] = <<>>
                 /\ historyIndex'[c] = -1]_vars

\* The second drawer has filled the history and undone once, after the first
\* drawer's history was emptied by the new word_selected_at.
C31_Witness ==
    /\ room.current_drawer_index = 1
    /\ Len(history[2]) = MAX_HISTORY
    /\ historyIndex[2] = MAX_HISTORY - 2
    /\ lastWordSelectedAt[1] = room.word_selected_at
    /\ history[1] = <<>>

\* What the canvas shows after one click on undo: the snapshot before the
\* current one, or what it showed when there is none.
AfterUndo(h, idx, shown) == IF idx > 0 THEN h[idx] ELSE shown

\* C40: when the drawer has completed an operation (the pen or eraser was
\* lifted, a fill was made, the canvas was cleared), one undo shows the
\* canvas as it was immediately before that operation.
C40_UndoRevertsOperation ==
    [][\A c \in Ids :
          /\ HandleEnd(c) =>
                 AfterUndo(history'[c], historyIndex'[c], canvas'[c]) = strokeStart[c]
          /\ (tool[c] = "fill" /\ \E point \in Points : HandleStart(c, point)) =>
                 AfterUndo(history'[c], historyIndex'[c], canvas'[c]) = canvas[c]
          /\ ClearCanvas(c) =>
                 AfterUndo(history'[c], historyIndex'[c], canvas'[c]) = canvas[c]]_vars

\* C32: for every sequence of messages the worker has at most one interval
\* active (a repeated 'start' creates no second one), and a 'tick' is posted
\* only while the last 'start' or 'stop' handled was a 'start': none before
\* the first 'start' and none after a 'stop' until the next 'start'.
C32_OneIntervalTicksWhileStarted ==
    /\ Cardinality(workerJs.intervals) <= 1
    /\ workerJs.intervals = IF workerJs.intervalId = 0 THEN {} ELSE {workerJs.intervalId}
    /\ workerJs.started = (workerJs.intervals # {})
    /\ workerJs.ticked => workerJs.started

\* A 'start' arrives at the started worker that has ticked, after an earlier
\* 'stop' and restart.
C32_Witness ==
    /\ workerJs.created = 2
    /\ workerJs.started
    /\ workerJs.ticked
    /\ workerJs.inbox # <<>>
    /\ Head(workerJs.inbox) = "start"

\* C33: no client has more than one polling worker alive, and once the
\* effects of its last render or unmount have run, a client has a worker
\* alive exactly when GameView is mounted, its own row is flagged host and
\* the room is playing: the worker is terminated when the flag is lost, the
\* status leaves 'playing' or the view unmounts.
C33_WorkerOnlyForPlayingHost ==
    \A c \in Ids :
        /\ hostLoop[c].alive <= 1
        /\ ~LoopPending(c) => (hostLoop[c].alive = 1 <=> LoopWanted(c))

\* The first host has left the running game and its worker is gone; the
\* other player was promoted and runs the only worker.
C33_Witness ==
    /\ room.status = "playing"
    /\ ~Joined(1)
    /\ hostLoop[1] = NoLoop
    /\ hostLoop[2].alive = 1
    /\ room.current_word # NoWord

\* C34: while a word is selected, a force-end write lands only if its check
\* was made for this turn, and a turn-advance write lands only if it was
\* computed from the room row of this turn and the reveal of this turn has
\* begun: a write computed in an earlier turn changes neither current_word
\* nor turn_ends_at of a later turn.
C34_StaleWriteSparesLaterTurn ==
    [][\A c \in Ids :
          /\ (CheckUpdate(c) /\ room.current_word # NoWord) =>
                 checkPc[c].turn = room.word_selected_at
          /\ (NextTurn(c) /\ room.current_word # NoWord) =>
                 /\ clientRoom[c].word_selected_at = room.word_selected_at
                 /\ room.turn_ends_at # NoTime
                 /\ now > room.turn_ends_at]_vars
\* A guesser who submits the form twice: one turn of two players, the clock,
\* the row of the room on its way to the pages, both calls of sendGuess and
\* the turn-end checks they start.
NextTwice ==
    \/ Tick
    \/ \E c \in Ids :
        \/ RoomChanged(c)
        \/ \E t \in {"apple", "appel", "app"} : GuessSubmit(c, t)
        \/ GuessInsert(c)
        \/ GuessIncrement(c)
        \/ GuessSettledCheck(c)
        \/ Resubmit(c)
        \/ ResubmitInsert(c)
        \/ ResubmitIncrement(c)
        \/ ResubmitSettledCheck(c)
        \/ CheckQuery(c)
        \/ CheckUpdate(c)

SpecTwice == InitTools /\ [][NextTwice]_vars

\* C35: within one turn each player is credited for at most one correct
\* guess: the log holds at most one correct guess of a player since the word
\* of the turn was selected, and the player's score is at most the points of
\* that guess.
CorrectOf(c) ==
    {g \in CorrectSince(room.word_selected_at) : g.player_id = c}

C35_OneCorrectGuessPerTurn ==
    \A c \in GameIds :
        /\ Cardinality(CorrectOf(c)) <= 1
        /\ \A g \in CorrectOf(c) : players[c].score <= g.points_awarded

\* C36: no guess earns points once the turn is over: a guess that a page
\* showing the current row of the room submits after turn_ends_at has passed,
\* or while no word is selected, is given 0 points.
TurnOver(r, t) ==
    \/ r.current_word = NoWord
    \/ r.turn_ends_at # NoTime /\ t > r.turn_ends_at

C36_NoPointsAfterTurnEnd ==
    [][\A c \in GameIds :
         (/\ guessPc[c].stage = "idle"
          /\ guessPc'[c].stage = "insert"
          /\ clientRoom[c] = room
          /\ TurnOver(room, now))
         => guessPc'[c].points = 0]_vars

\* Guessing in every mode: one turn of three players in classic, speed or
\* relay mode; the creator selected the word and draws first, the clock runs
\* and every player who is not the drawer of the moment may guess, one
\* guess at a time.
InitModes == \E mode \in GAME_MODES : InitTurn(1, mode)

NoGuessInFlight == \A d \in Ids : guessPc[d].stage = "idle"

NextModes ==
    \/ Tick
    \/ \E c \in Ids :
        \/ NoGuessInFlight /\ GuessSubmit(c, "apple")
        \/ GuessInsert(c)
        \/ GuessIncrement(c)
        \/ GuessSettledCheck(c)
        \/ CheckUpdate(c)

SpecModes == InitModes /\ [][NextModes]_vars

\* The players who have been the drawer of the running turn up to time t:
\* the base drawer, who selected the word, and in relay mode the drawers of
\* the segments that have begun.
DrawersUntil(t) ==
    IF room.word_selected_at = NoTime THEN {}
    ELSE {IF room.settings.game_mode = "relay"
          THEN GetRelayDrawerId(players, room.current_drawer_index,
                   GetRelayDrawerIndex(room.settings, room.word_selected_at,
                                       room.turn_ends_at, u))
          ELSE FindFirst(OrderIds(players, DOMAIN players),
                         {i \in DOMAIN players :
                            players[i].turn_order = room.current_drawer_index})
          : u \in room.word_selected_at .. t}

\* C37: a player who selected the word of the turn or has been its effective
\* drawer has no correct guess scored in that turn, in every game mode.
C37_DrawersNeverScoreAsGuessers ==
    \A g \in CorrectSince(room.word_selected_at) :
        g.player_id \notin DrawersUntil(g.guessed_at)

\* Progress of a game: two players in the lobby of a one-round room, the
\* creator hosts.  The host starts the game, drawers select (the countdown of
\* the modal selects the first candidate at the latest), the clock runs, the
\* host presses Continue on every scoreboard, and the drawer of the moment
\* may leave; every page has received the rows before a player or a timer
\* acts.
AllInformed ==
    \A d \in Ids :
        Joined(d) => clientRoom[d] = room /\ rawPlayers[d] = Snapshot(players)

ProgressStep ==
    \/ AllInformed /\ Tick
    \/ \E c \in Ids :
        \/ RoomChanged(c)
        \/ ReloadPlayers(c)
        \/ WordSelectionEffect(c)
        \/ AllInformed /\ AutoSelectWord(c)
        \/ AllInformed /\ NextTurn(c)

NextProgress ==
    \/ ProgressStep
    \/ \E c \in Ids :
        \/ AllInformed /\ StartGame(c)
        \/ AllInformed /\ GameMounted(c) /\ IsDrawer(c) /\ Leave(c)

\* Timers fire, change events are delivered, effects run and the host clicks
\* Continue; nobody is obliged to start a game or to stay.
SpecProgressFair ==
    InitStale /\ [][NextProgress]_vars /\ WF_vars(ProgressStep)

\* A player whose row is marked host is on the presence channel.
HostOnline == \E c \in DOMAIN players : players[c].is_host /\ c \in present

\* C38: while the room is 'playing' and a host is online the game makes
\* progress: the room eventually reaches 'finished', also when the drawer
\* leaves during word selection or drawing.  (A game that is still running
\* when the clock of the model ends is not counted.)
C38_GameReachesFinished ==
    (room.status = "playing")
        ~> (room.status = "finished" \/ ~HostOnline \/ now = MaxTime)

\* Joining a room of any size: the creator is in the lobby and has chosen one
\* of the sizes of the settings panel; the other browsers join, the host may
\* start the game.
MAX_PLAYERS_OPTIONS == {2, 4, 6, 8, 10, 12, 16}

InitJoin ==
    /\ InitGameVars
    /\ \E m \in MAX_PLAYERS_OPTIONS :
          room = [InitRoom EXCEPT !.settings.max_players = m]
    /\ players = InsertRow(NoRows, 1, PlayerRow(0, TRUE))
    /\ present = {1}
    /\ clientRoom = [c \in Ids |-> room]
    /\ rawPlayers = [c \in Ids |-> NoRows]
    /\ onlineIds = [c \in Ids |-> {}]
    /\ hostPc = [c \in Ids |-> IdleHost]
    /\ joinPc = [c \in Ids |-> IF c = 1 THEN [stage |-> "joined", count |-> 0]
                                ELSE IdleJoin]
    /\ starting = [c \in Ids |-> FALSE]
    /\ churn = 0

SpecJoin == InitJoin /\ [][NextLobby]_vars

\* C39: joining respects the limits of the room: an insert of joinRoom never
\* leaves more player rows than max_players, and no row is inserted while the
\* room is 'playing'.
C39_JoinRespectsLimits ==
    [][\A c \in Ids :
         (joinPc[c].stage = "counted" /\ joinPc'[c].stage = "joined")
         => /\ Cardinality(DOMAIN players') <= room.settings.max_players
            /\ room.status # "playing"]_vars

====
